---------------------------- MODULE Spec2Model ----------------------------
(***************************************************************************)
(* remindMe AI microservice (src/public/app.py): the chat pipeline         *)
(* (intent stage, extraction stage, temporal normalisation, past-time      *)
(* validation, reminder store) as a state machine of request threads.      *)
(*                                                                         *)
(* Python text is a TLA+ string; TLC evaluates Len, SubSeq and \o on       *)
(* strings, so the text functions are computed character by character.     *)
(***************************************************************************)
EXTENDS Integers, Sequences, FiniteSets, TLC

(***************************************************************************)
(* Python str primitives                                                   *)
(***************************************************************************)
\* s[a-1:b] with 1-based inclusive positions, clipped to the text
Sub(s, a, b) ==
    LET lo == IF a < 1 THEN 1 ELSE a
        hi == IF b > Len(s) THEN Len(s) ELSE b
    IN  IF lo > hi THEN "" ELSE SubSeq(s, lo, hi)

\* the character at position i, "" outside the text
Char(s, i) == Sub(s, i, i)

Digits == "0123456789"

UpperChars == "ABCDEFGHIJKLMNOPQRSTUVWXYZ"

LowerChars == "abcdefghijklmnopqrstuvwxyz"

IsSpace(c) == c \in {" ", "\t", "\n", "\r"}

IsDigit(c) == c \in {"0", "1", "2", "3", "4", "5", "6", "7", "8", "9"}

\* the least and the greatest member of a set of positions, 0 when empty
First(S) == IF S = {} THEN 0 ELSE CHOOSE i \in S : \A j \in S : i <= j

Last(S) == IF S = {} THEN 0 ELSE CHOOSE i \in S : \A j \in S : j <= i

\* 1-based position of the one-character string c in alphabet, 0 when absent
PosIn(c, alphabet) == First({i \in 1..Len(alphabet) : Char(alphabet, i) = c})

DigitVal(c) == PosIn(c, Digits) - 1

\* the character at position k of alphabet, c when k is 0
CharOr(alphabet, k, c) == IF k = 0 THEN c ELSE Char(alphabet, k)

LowerChar(c) == CharOr(LowerChars, PosIn(c, UpperChars), c)

\* the pieces[a] ... pieces[b] joined, halving the range
RECURSIVE Concat(_, _, _)
Concat(pieces, a, b) ==
    IF a > b THEN ""
    ELSE IF a = b THEN pieces[a]
    ELSE Concat(pieces, a, (a + b) \div 2)
         \o Concat(pieces, ((a + b) \div 2) + 1, b)

str_lower(s) ==
    Concat([i \in 1..Len(s) |-> LowerChar(Char(s, i))], 1, Len(s))

\* s from position first on, "" when first is 0
From(s, first) == IF first = 0 THEN "" ELSE Sub(s, first, Len(s))

str_lstrip(s) == From(s, First({i \in 1..Len(s) : ~IsSpace(Char(s, i))}))

str_rstrip(s) == Sub(s, 1, Last({i \in 1..Len(s) : ~IsSpace(Char(s, i))}))

str_strip(s) == str_rstrip(str_lstrip(s))

\* s[i-1:] begins with lit (i is 1-based)
StartsAt(s, i, lit) ==
    /\ i >= 1
    /\ i + Len(lit) - 1 <= Len(s)
    /\ Sub(s, i, i + Len(lit) - 1) = lit

str_startswith(s, lit) == StartsAt(s, 1, lit)

\* lit in s
str_contains(s, lit) == \E i \in 1..(Len(s) + 1) : StartsAt(s, i, lit)

\* s.find(lit), 1-based; 0 when absent
str_find(s, lit) == First({i \in 1..(Len(s) + 1) : StartsAt(s, i, lit)})

\* s.rfind(lit), 1-based; 0 when absent
str_rfind(s, lit) == Last({i \in 1..(Len(s) + 1) : StartsAt(s, i, lit)})

\* s[a:b] of Python with 0-based a, b >= 0 already resolved
Slice(s, a, b) == Sub(s, a + 1, IF b > Len(s) THEN Len(s) ELSE b)

\* s[a:-k]
SliceDrop(s, a, k) == Slice(s, a, IF Len(s) - k < 0 THEN 0 ELSE Len(s) - k)

\* length of the run of digits that starts at position i
RECURSIVE DigitRun(_, _)
DigitRun(s, i) ==
    IF i <= Len(s) /\ IsDigit(Char(s, i)) THEN 1 + DigitRun(s, i + 1) ELSE 0

\* length of the run of whitespace that starts at position i
RECURSIVE SpaceRun(_, _)
SpaceRun(s, i) ==
    IF i <= Len(s) /\ IsSpace(Char(s, i)) THEN 1 + SpaceRun(s, i + 1) ELSE 0

\* value of a string of decimal digits
RECURSIVE DecValue(_)
DecValue(s) ==
    IF s = "" THEN 0
    ELSE 10 * DecValue(Sub(s, 1, Len(s) - 1)) + DigitVal(Char(s, Len(s)))

\* str(n) for n >= 0
RECURSIVE DecString(_)
DecString(n) ==
    IF n < 10 THEN Char(Digits, n + 1)
    ELSE DecString(n \div 10) \o Char(Digits, (n % 10) + 1)

\* the digits t filled with zeros on the left up to width
PadLeft(t, width) ==
    IF Len(t) >= width THEN t ELSE Sub("0000", 1, width - Len(t)) \o t

\* f"{n:02d}" and f"{n:04d}" for n >= 0
ZeroPad(n, width) == PadLeft(DecString(n), width)

\* the maximal run of digits that starts at position i, "" when i is 0
DigitsAt(s, i) == IF i = 0 THEN "" ELSE Sub(s, i, i + DigitRun(s, i) - 1)

\* re.search(r'(\d+)', s): the first maximal run of digits, "" when none
FirstNumber(s) == DigitsAt(s, First({i \in 1..Len(s) : IsDigit(Char(s, i))}))

\* the text t without a leading sign
Unsigned(t) == IF t # "" /\ Head(t) \in {"+", "-"} THEN Tail(t) ELSE t

AllDigits(u) == u # "" /\ DigitRun(u, 1) = Len(u)

\* int(text): optional surrounding whitespace, optional sign, decimal digits
IntOk(text) == AllDigits(Unsigned(str_strip(text)))

SignedValue(t) ==
    IF Head(t) = "-" THEN 0 - DecValue(Tail(t))
    ELSE IF Head(t) = "+" THEN DecValue(Tail(t))
    ELSE DecValue(t)

IntVal(text) == SignedValue(str_strip(text))

(***************************************************************************)
(* datetime.date: proleptic Gregorian calendar                             *)
(***************************************************************************)
IsLeap(y) == (y % 4 = 0) /\ ((y % 100 # 0) \/ (y % 400 = 0))

DaysInMonth(y, m) ==
    IF m = 2 THEN (IF IsLeap(y) THEN 29 ELSE 28)
    ELSE IF m \in {4, 6, 9, 11} THEN 30 ELSE 31

\* datetime(y, m, d) raises ValueError unless this holds
ValidYMD(y, m, d) ==
    /\ y \in 1..9999
    /\ m \in 1..12
    /\ d >= 1
    /\ d <= DaysInMonth(y, m)

MkDate(y, m, d) == [y |-> y, m |-> m, d |-> d]

DaysBeforeYear(y) ==
    (y - 1) * 365 + ((y - 1) \div 4) - ((y - 1) \div 100) + ((y - 1) \div 400)

RECURSIVE DaysBeforeMonth(_, _)
DaysBeforeMonth(y, m) ==
    IF m = 1 THEN 0 ELSE DaysBeforeMonth(y, m - 1) + DaysInMonth(y, m - 1)

\* date.toordinal(): 0001-01-01 is day 1
ToOrdinal(dt) == DaysBeforeYear(dt.y) + DaysBeforeMonth(dt.y, dt.m) + dt.d

\* the year and the month that hold day n of the calendar, day r of year y
YearOf(n) ==
    CHOOSE yy \in ((n \div 366) + 1)..((n \div 365) + 1) :
        DaysBeforeYear(yy) < n /\ n <= DaysBeforeYear(yy + 1)

MonthOf(y, r) ==
    CHOOSE mm \in 1..12 :
        DaysBeforeMonth(y, mm) < r
        /\ r <= DaysBeforeMonth(y, mm) + DaysInMonth(y, mm)

DateInMonth(y, m, r) == MkDate(y, m, r - DaysBeforeMonth(y, m))

DateInYear(y, r) == DateInMonth(y, MonthOf(y, r), r)

OrdinalInYear(y, n) == DateInYear(y, n - DaysBeforeYear(y))

\* date.fromordinal()
FromOrdinal(n) == OrdinalInYear(YearOf(n), n)

\* date + timedelta(days=n)
AddDays(dt, n) == FromOrdinal(ToOrdinal(dt) + n)

\* date.weekday(): Monday is 0
Weekday(dt) == (ToOrdinal(dt) + 6) % 7

DateLess(a, b) == ToOrdinal(a) < ToOrdinal(b)

\* date.isoformat() and strftime('%Y-%m-%d')
isoformat(dt) ==
    ZeroPad(dt.y, 4) \o "-" \o ZeroPad(dt.m, 2) \o "-" \o ZeroPad(dt.d, 2)

\* datetime.fromisoformat(s).date() succeeds: YYYY-MM-DD naming a real day
IsIsoDate(s) ==
    /\ Len(s) = 10
    /\ \A i \in {1, 2, 3, 4, 6, 7, 9, 10} : IsDigit(Char(s, i))
    /\ Char(s, 5) = "-"
    /\ Char(s, 8) = "-"
    /\ ValidYMD(DecValue(Sub(s, 1, 4)), DecValue(Sub(s, 6, 7)),
                DecValue(Sub(s, 9, 10)))

fromisoformat(s) ==
    MkDate(DecValue(Sub(s, 1, 4)), DecValue(Sub(s, 6, 7)),
           DecValue(Sub(s, 9, 10)))

\* strftime('%H:%M') of a time of day
FormatHM(h, m) == ZeroPad(h, 2) \o ":" \o ZeroPad(m, 2)

(***************************************************************************)
(* strip_html_tags                                                         *)
(***************************************************************************)
\* the positions from a '<' at i to the next '>' after it, when at least one
\* character lies between them
TagSpan(i, close) == IF close >= i + 2 THEN i..close ELSE {}

\* the positions the matches of r'<[^>]+>' cover: matches are taken left to
\* right and do not overlap, and a '<' inside a match has the same next '>'
TagSpans(s) ==
    UNION {TagSpan(i, First({j \in (i + 1)..Len(s) : Char(s, j) = ">"})) :
           i \in {k \in 1..Len(s) : Char(s, k) = "<"}}

\* s without the characters at the positions in gone
Without(s, gone) ==
    Concat([i \in 1..Len(s) |-> IF i \in gone THEN "" ELSE Char(s, i)],
           1, Len(s))

\* re.sub(r'<[^>]+>', '', text)
RemoveTags(s) == Without(s, TagSpans(s))

\* re.sub(r'\s+', ' ', text): a run of whitespace becomes one space
CollapseSpace(s) ==
    Concat([i \in 1..Len(s) |->
               IF ~IsSpace(Char(s, i)) THEN Char(s, i)
               ELSE IF i > 1 /\ IsSpace(Char(s, i - 1)) THEN ""
               ELSE " "],
           1, Len(s))

strip_html_tags(text) ==
    IF text = "" THEN text
    ELSE str_strip(CollapseSpace(RemoveTags(text)))

(***************************************************************************)
(* Python values held in decoded JSON objects and in reminder records:     *)
(* a str, a bool or None                                                   *)
(***************************************************************************)
PyStr(s) == [t |-> "str", s |-> s, b |-> FALSE]

PyBool(b) == [t |-> "bool", s |-> "", b |-> b]

PyNone == [t |-> "none", s |-> "", b |-> FALSE]

\* Python truthiness: `if v`
Truthy(v) == (v.t = "str" /\ v.s # "") \/ (v.t = "bool" /\ v.b)

\* d.get(k, default) of a dict d (a function on its keys)
Get(d, k, default) == IF k \in DOMAIN d THEN d[k] ELSE default

\* the dict d with d[k] = v
Put(d, k, v) == (k :> v) @@ d

EmptyDict == [k \in {} |-> PyNone]

(***************************************************************************)
(* json.loads on the texts the stages return: one object whose values are  *)
(* strings without escapes, true, false or null.  Anything else is a       *)
(* decode failure.                                                         *)
(***************************************************************************)
SkipWs(s, i) == i + SpaceRun(s, i)

JsonFail == [ok |-> FALSE, val |-> PyNone, next |-> 0]

\* the literal whose text is body, the parse resuming at position next
StringValue(body, next) ==
    IF \E c \in {"\\", "\n", "\t", "\r"} : str_contains(body, c)
    THEN JsonFail
    ELSE [ok |-> TRUE, val |-> PyStr(body), next |-> next]

\* the literal that opens at i and closes close characters later
StringUpTo(s, i, close) ==
    IF close = 0 THEN JsonFail
    ELSE StringValue(Sub(s, i + 1, i + close - 1), i + close + 1)

\* a string literal that opens at position i
JsonString(s, i) ==
    IF Char(s, i) # "\"" THEN JsonFail
    ELSE StringUpTo(s, i, str_find(Sub(s, i + 1, Len(s)), "\""))

JsonValue(s, i) ==
    IF Char(s, i) = "\"" THEN JsonString(s, i)
    ELSE IF StartsAt(s, i, "true")
    THEN [ok |-> TRUE, val |-> PyBool(TRUE), next |-> i + 4]
    ELSE IF StartsAt(s, i, "false")
    THEN [ok |-> TRUE, val |-> PyBool(FALSE), next |-> i + 5]
    ELSE IF StartsAt(s, i, "null")
    THEN [ok |-> TRUE, val |-> PyNone, next |-> i + 4]
    ELSE JsonFail

NoData == [ok |-> FALSE, data |-> EmptyDict]

\* the members of an object from position i on, added to d; a repeated key
\* keeps its last value.  One member is read in four steps: its key, the
\* colon, its value, and the ',' or '}' after it
RECURSIVE JsonMembers(_, _, _)
MemberEnd(s, d, after) ==
    IF Char(s, after) = "," THEN JsonMembers(s, after + 1, d)
    ELSE IF Char(s, after) = "}" /\ SkipWs(s, after + 1) = Len(s) + 1
    THEN [ok |-> TRUE, data |-> d]
    ELSE NoData

MemberValue(s, d, key, v) ==
    IF ~v.ok THEN NoData
    ELSE MemberEnd(s, Put(d, key.val.s, v.val), SkipWs(s, v.next))

MemberColon(s, d, key, colon) ==
    IF Char(s, colon) # ":" THEN NoData
    ELSE MemberValue(s, d, key, JsonValue(s, SkipWs(s, colon + 1)))

MemberKey(s, d, key) ==
    IF ~key.ok THEN NoData
    ELSE MemberColon(s, d, key, SkipWs(s, key.next))

JsonMembers(s, i, d) == MemberKey(s, d, JsonString(s, SkipWs(s, i)))

\* the object that opens at position open
ObjectAt(s, open, first) ==
    IF Char(s, open) # "{" THEN NoData
    ELSE IF Char(s, first) = "}"
    THEN (IF SkipWs(s, first + 1) = Len(s) + 1
          THEN [ok |-> TRUE, data |-> EmptyDict]
          ELSE NoData)
    ELSE JsonMembers(s, open + 1, EmptyDict)

json_loads(s) == ObjectAt(s, SkipWs(s, 1), SkipWs(s, SkipWs(s, 1) + 1))

(***************************************************************************)
(* parse_json_response                                                     *)
(***************************************************************************)
\* A TLA+ string cannot hold a backquote: '~' stands for it, so the code
\* fence marker is written "~~~".
Fence == "~~~"

\* clean_text[7:-3] / clean_text[3:-3] after a leading fence
Unfence(clean_text) ==
    IF str_startswith(clean_text, Fence \o "json")
    THEN SliceDrop(clean_text, 7, 3)
    ELSE IF str_startswith(clean_text, Fence)
    THEN SliceDrop(clean_text, 3, 3)
    ELSE clean_text

\* the text from position open to position close when they make a span
SpanOr(clean_text, open, close) ==
    IF open > 0 /\ close > open
    THEN Sub(clean_text, open, close)
    ELSE clean_text

\* re.search(r'\{.*\}', clean_text, re.DOTALL): from the first '{' to the
\* last '}' after it; the text itself when there is no such span
BraceSpan(clean_text) ==
    SpanOr(clean_text, str_find(clean_text, "{"), str_rfind(clean_text, "}"))

\* lines 208-210: parsed['message'] = strip_html_tags(parsed['message'])
StripMessage(parsed, msg) ==
    IF ~parsed.ok THEN NoData
    ELSE IF ~Truthy(msg) THEN parsed
    ELSE IF msg.t # "str" THEN NoData   \* re.sub raises TypeError
    ELSE [ok |-> TRUE,
          data |-> Put(parsed.data, "message", PyStr(strip_html_tags(msg.s)))]

DecodedObject(parsed) ==
    StripMessage(parsed, Get(parsed.data, "message", PyNone))

parse_json_response(response_text) ==
    DecodedObject(
        json_loads(str_strip(BraceSpan(Unfence(str_strip(response_text))))))

(***************************************************************************)
(* Results of functions that may raise                                     *)
(***************************************************************************)
Ok(v) == [exc |-> "", val |-> v]

Raise(e) == [exc |-> e, val |-> ""]

\* datetime.now(): the wall clock w is [date, hour, minute]
NowIso(w) == isoformat(w.date) \o "T" \o FormatHM(w.hour, w.minute)

(***************************************************************************)
(* convert_date_to_iso                                                     *)
(***************************************************************************)
DayNames ==
    <<"monday", "tuesday", "wednesday", "thursday", "friday", "saturday",
      "sunday">>

MonthNames ==
    <<"january", "february", "march", "april", "may", "june", "july",
      "august", "september", "october", "november", "december">>

MonthAbbrs ==
    <<"jan", "feb", "mar", "apr", "may", "jun", "jul", "aug", "sep", "oct",
      "nov", "dec">>

\* index of s in the tuple names, 0 when absent
IndexIn(s, names) ==
    LET hits == {k \in 1..Len(names) : names[k] = s}
    IN  IF hits = {} THEN 0 ELSE CHOOSE k \in hits : TRUE



\* the day read from k digits at i and the month whose name starts at p
DayMonthOf(s, i, k, ms) ==
    IF k \in {1, 2} /\ SpaceRun(s, i + k) >= 1 /\ ms # {}
    THEN [month |-> CHOOSE m \in ms : TRUE,
          day |-> DecValue(Sub(s, i, i + k - 1))]
    ELSE [month |-> 0, day |-> 0]

MonthsAt(s, p) == {m \in 1..12 : StartsAt(s, p, MonthAbbrs[m])}

\* r'(\d{1,2})\s+(january|...|dec)' matched at position i: one or two
\* digits, whitespace, then a month name; the day and month, or month 0
DayMonthAt(s, i) ==
    DayMonthOf(s, i, DigitRun(s, i),
               MonthsAt(s, SkipWs(s, i + DigitRun(s, i))))

\* name, whitespace and a digit follow one another from position i
NameThenDay(s, i, name) ==
    /\ StartsAt(s, i, name)
    /\ SpaceRun(s, i + Len(name)) >= 1
    /\ DigitRun(s, SkipWs(s, i + Len(name))) >= 1

\* (\d{1,2}) at position p: two digits when there are two
DayDigits(s, p) ==
    DecValue(Sub(s, p, p + (IF DigitRun(s, p) >= 2 THEN 2 ELSE 1) - 1))

MonthDayOf(s, i, m, names) ==
    [month |-> m, day |-> DayDigits(s, SkipWs(s, i + Len(names[m])))]

\* the alternation tries the full names before the abbreviations
MonthDayPick(s, i, full, abbr) ==
    IF full # {} THEN MonthDayOf(s, i, CHOOSE m \in full : TRUE, MonthNames)
    ELSE IF abbr # {}
    THEN MonthDayOf(s, i, CHOOSE m \in abbr : TRUE, MonthAbbrs)
    ELSE [month |-> 0, day |-> 0]

\* r'(january|...|dec)\s+(\d{1,2})' matched at position i: a month name
\* (full or abbreviated), whitespace, then one or two digits
MonthDayAt(s, i) ==
    MonthDayPick(s, i,
                 {m \in 1..12 : NameThenDay(s, i, MonthNames[m])},
                 {m \in 1..12 : NameThenDay(s, i, MonthAbbrs[m])})

\* p1 and p2 are the positions where the first and the second pattern match
FirstMatch(s, p1, p2) ==
    IF p1 # 0 THEN DayMonthAt(s, p1)
    ELSE IF p2 # 0 THEN MonthDayAt(s, p2)
    ELSE [month |-> 0, day |-> 0]

\* the first of the two month_day_patterns that matches anywhere in s,
\* at its leftmost position
MonthDayMatch(s) ==
    FirstMatch(s,
               First({i \in 1..Len(s) : DayMonthAt(s, i).month # 0}),
               First({i \in 1..Len(s) : MonthDayAt(s, i).month # 0}))

\* a date that stays in the current year when it has passed
MonthDayDateThisYear(today, month, day) ==
    IF ~ValidYMD(today.y, month, day) THEN today
    ELSE MkDate(today.y, month, day)

\* lines 286-299: the date in the current year, next year when it has passed,
\* today when datetime() raises ValueError
MonthDayDate(today, month, day) ==
    IF ~ValidYMD(today.y, month, day) THEN today
    ELSE IF ~DateLess(MkDate(today.y, month, day), today)
    THEN MkDate(today.y, month, day)
    ELSE IF ValidYMD(today.y + 1, month, day)
    THEN MkDate(today.y + 1, month, day)
    ELSE today

\* num is the first number in s
RelativeDateBy(s, today, num) ==
    IF ~(str_contains(s, "next") \/ str_contains(s, "in")) \/ num = ""
    THEN ""
    ELSE IF str_contains(s, "day")
    THEN isoformat(AddDays(today, DecValue(num)))
    ELSE IF str_contains(s, "week")
    THEN isoformat(AddDays(today, 7 * DecValue(num)))
    ELSE ""

\* lines 248-256: today + N days or weeks; "" when the branch does not apply
RelativeDate(s, today) == RelativeDateBy(s, today, FirstNumber(s))

\* a next day of the week that may be today itself
NextWeekdayOrToday(today, ahead) ==
    isoformat(AddDays(today, IF ahead < 0 THEN ahead + 7 ELSE ahead))

\* lines 241-246: the next day of the week, ahead days from today
NextWeekday(today, ahead) ==
    isoformat(AddDays(today, IF ahead <= 0 THEN ahead + 7 ELSE ahead))

\* lines 248-311: rel is the relative date, md the month and day matched
ConvertDateFree(s, today, rel, md) ==
    IF rel # "" THEN rel
    ELSE IF md.month # 0
    THEN isoformat(MonthDayDate(today, md.month, md.day))
    ELSE IF Len(s) = 10 /\ str_contains(s, "-") /\ IsIsoDate(s)
    THEN isoformat(fromisoformat(s))
    ELSE isoformat(today)

\* lines 233-311: s is date_str.lower().strip()
ConvertDateClean(s, today) ==
    IF s \in {"today", ""} THEN isoformat(today)
    ELSE IF s = "tomorrow" THEN isoformat(AddDays(today, 1))
    ELSE IF s = "yesterday" THEN isoformat(AddDays(today, -1))
    ELSE IF IndexIn(s, DayNames) > 0
    THEN NextWeekday(today, IndexIn(s, DayNames) - 1 - Weekday(today))
    ELSE ConvertDateFree(s, today, RelativeDate(s, today), MonthDayMatch(s))

\* lines 229-311, date_str being a non-empty str
ConvertDateText(text, today) ==
    ConvertDateClean(str_strip(str_lower(text)), today)

\* lines 222-229: today_str is the client's isoDate or the wall clock's date
ConvertDateFrom(date_str, today_str) ==
    IF ~IsIsoDate(today_str) THEN Raise("ValueError")
    ELSE IF ~Truthy(date_str) THEN Ok(isoformat(fromisoformat(today_str)))
    ELSE IF date_str.t # "str" THEN Raise("AttributeError")
    ELSE Ok(ConvertDateText(date_str.s, fromisoformat(today_str)))

\* date_str is a Python value, current_datetime a dict, wall the clock
convert_date_to_iso(date_str, current_datetime, wall) ==
    ConvertDateFrom(date_str,
                    Get(current_datetime, "isoDate", isoformat(wall.date)))

(***************************************************************************)
(* convert_time_to_24h                                                     *)
(***************************************************************************)
\* minutes added without carrying past midnight
AddMinutesNoWrap(current_hour, total_minutes) ==
    FormatHM(current_hour + (total_minutes \div 60), total_minutes % 60)

\* lines 331-334: total_minutes past the current hour
AddMinutes(current_hour, total_minutes) ==
    FormatHM((current_hour + (total_minutes \div 60)) % 24, total_minutes % 60)

\* num is the first number in s
RelativeTimeBy(s, current_hour, current_minute, num) ==
    IF ~(str_contains(s, "next") \/ str_contains(s, "in")) \/ num = ""
    THEN ""
    ELSE IF str_contains(s, "hour")
    THEN FormatHM((current_hour + DecValue(num)) % 24, current_minute)
    ELSE IF str_contains(s, "minute")
    THEN AddMinutes(current_hour, current_minute + DecValue(num))
    ELSE ""

\* lines 324-336: "in N hours" / "next N minutes" added to the current time;
\* "" when the branch does not apply
RelativeTime(s, current_hour, current_minute) ==
    RelativeTimeBy(s, current_hour, current_minute, FirstNumber(s))

\* the match with k hour digits at i, minutes (if any) at c, am/pm at p
AmPmMatch(s, i, k, c, hasMin, p) ==
    [ok |-> DigitRun(s, i) >= k /\ (StartsAt(s, p, "am") \/ StartsAt(s, p, "pm")),
     hour |-> DecValue(Sub(s, i, i + k - 1)),
     minute |-> IF hasMin THEN DecValue(Sub(s, c, c + 1)) ELSE 0,
     pm |-> StartsAt(s, p, "pm")]

AmPmSuffix(s, i, k, c, hasMin) ==
    AmPmMatch(s, i, k, c, hasMin, SkipWs(s, c + (IF hasMin THEN 2 ELSE 0)))

AmPmMinutes(s, i, k, c) == AmPmSuffix(s, i, k, c, DigitRun(s, c) >= 2)

\* r'(\d{1,2}):?(\d{2})?\s*(am|pm)' matched at position i with k hour digits
AmPmWith(s, i, k) ==
    AmPmMinutes(s, i, k, i + k + (IF Char(s, i + k) = ":" THEN 1 ELSE 0))

PreferFirst(a, b) == IF a.ok THEN a ELSE b

\* the match at position i: two hour digits are tried before one
AmPmAt(s, i) == PreferFirst(AmPmWith(s, i, 2), AmPmWith(s, i, 1))

\* lines 352-358
To24h(m) ==
    FormatHM(IF m.pm /\ m.hour # 12 THEN m.hour + 12
             ELSE IF ~m.pm /\ m.hour = 12 THEN 0
             ELSE m.hour,
             m.minute)

\* text.split(':')[0] and [1] of a text whose first ':' is at position c
FieldBefore(text, c) == IF c = 0 THEN text ELSE Sub(text, 1, c - 1)

SecondField(rest) == FieldBefore(rest, str_find(rest, ":"))

\* lines 364-366
ColonRange(hour, minute) ==
    IF hour \in 0..23 /\ minute \in 0..59 THEN FormatHM(hour, minute) ELSE ""

ColonInts(part0, part1) ==
    IF ~IntOk(part0) \/ ~IntOk(part1) THEN ""
    ELSE ColonRange(IntVal(part0), IntVal(part1))

ColonSplit(s, c1) ==
    IF c1 = 0 THEN ""
    ELSE ColonInts(Sub(s, 1, c1 - 1), SecondField(Sub(s, c1 + 1, Len(s))))

\* lines 361-369: parts = time_str.split(':'); "" when int() raises or the
\* values are out of range
ColonTime(s) == ColonSplit(s, str_find(s, ":"))

\* lines 324-381: rel is the relative time, hit the position of the am/pm
\* match, colon the HH:MM reading
ConvertTimeBy(s, rel, hit, colon) ==
    IF rel # "" THEN PyStr(rel)
    ELSE IF str_contains(s, "12 am") \/ str_contains(s, "12am")
    THEN PyStr("00:00")
    ELSE IF str_contains(s, "12 pm") \/ str_contains(s, "12pm")
    THEN PyStr("12:00")
    ELSE IF hit # 0 THEN PyStr(To24h(AmPmAt(s, hit)))
    ELSE IF colon # "" THEN PyStr(colon)
    ELSE IF str_contains(s, "morning") THEN PyStr("09:00")
    ELSE IF str_contains(s, "afternoon") THEN PyStr("14:00")
    ELSE IF str_contains(s, "evening") THEN PyStr("18:00")
    ELSE IF str_contains(s, "night") THEN PyStr("20:00")
    ELSE PyNone

\* s is time_str.lower().strip()
ConvertTimeClean(s, current_hour, current_minute) ==
    ConvertTimeBy(s, RelativeTime(s, current_hour, current_minute),
                  First({i \in 1..Len(s) : AmPmAt(s, i).ok}), ColonTime(s))

\* lines 321-381, time_str being a non-empty str
ConvertTimeText(text, current_hour, current_minute) ==
    ConvertTimeClean(str_strip(str_lower(text)), current_hour, current_minute)

convert_time_to_24h(time_str, current_datetime, wall) ==
    IF ~Truthy(time_str) THEN Ok(PyNone)
    ELSE IF time_str.t # "str" THEN Raise("AttributeError")
    ELSE Ok(ConvertTimeText(time_str.s,
                            Get(current_datetime, "hour", wall.hour),
                            Get(current_datetime, "minute", wall.minute)))

(***************************************************************************)
(* validate_datetime                                                       *)
(***************************************************************************)
\* datetime.min.time().replace(hour=h, minute=m): the ValueError text, ""
\* when the time is valid
TimeError(h, m) ==
    IF h \notin 0..23 THEN "hour must be in 0..23"
    ELSE IF m \notin 0..59 THEN "minute must be in 0..59"
    ELSE ""

\* a comparison that lets an instant equal to the current one through
InstantLess(d1, h1, m1, d2, h2, m2) ==
    \/ DateLess(d1, d2)
    \/ d1 = d2 /\ (h1 < h2 \/ (h1 = h2 /\ m1 < m2))

\* reminder_dt <= current_dt
InstantLeq(d1, h1, m1, d2, h2, m2) ==
    \/ DateLess(d1, d2)
    \/ d1 = d2 /\ (h1 < h2 \/ (h1 = h2 /\ m1 <= m2))

\* reminder_time <= current_time
TimeLeq(h1, m1, h2, m2) == h1 < h2 \/ (h1 = h2 /\ m1 <= m2)

\* a check that looks at the dates alone
PastCheckDatesOnly(reminder_date, rh, rm, current_date, ch, cm) ==
    IF DateLess(reminder_date, current_date)
    THEN PyStr("Cannot set reminder for past date. Today is "
               \o isoformat(current_date)
               \o " and you're trying to set it for "
               \o isoformat(reminder_date) \o ".")
    ELSE PyNone

\* lines 414-424, every value parsed
PastCheck(reminder_date, rh, rm, current_date, ch, cm) ==
    IF InstantLeq(reminder_date, rh, rm, current_date, ch, cm)
    THEN IF reminder_date = current_date
         THEN IF TimeLeq(rh, rm, ch, cm)
              THEN PyStr("Cannot set reminder for past time. Current time is "
                         \o FormatHM(ch, cm)
                         \o " and you're trying to set it for "
                         \o FormatHM(rh, rm) \o ".")
              ELSE PyNone
         ELSE PyStr("Cannot set reminder for past date. Today is "
                    \o isoformat(current_date)
                    \o " and you're trying to set it for "
                    \o isoformat(reminder_date) \o ".")
    ELSE PyNone

\* line 427: the text returned when an exception is caught
Invalid(e) == PyStr("Invalid date/time format: " \o e)

\* lines 396-424: the reminder's date and time of day against the current
ValidateParsed(date_str, rh, rm, current_date_str, ch, cm) ==
    IF TimeError(rh, rm) # "" THEN Invalid(TimeError(rh, rm))
    ELSE PastCheck(fromisoformat(date_str), rh, rm,
                   fromisoformat(current_date_str), ch, cm)

\* lines 397-400: int(time_parts[0]), int(time_parts[1])
ValidateTime(date_str, c1, part0, part1, current_date_str, ch, cm) ==
    IF ~IntOk(part0)
    THEN Invalid("invalid literal for int() with base 10: '" \o part0 \o "'")
    ELSE IF c1 = 0 THEN Invalid("list index out of range")
    ELSE IF ~IntOk(part1)
    THEN Invalid("invalid literal for int() with base 10: '" \o part1 \o "'")
    ELSE ValidateParsed(date_str, IntVal(part0), IntVal(part1),
                        current_date_str, ch, cm)

ValidateSplit(date_str, t, c1, current_date_str, ch, cm) ==
    ValidateTime(date_str, c1, FieldBefore(t, c1),
                 SecondField(Sub(t, c1 + 1, Len(t))),
                 current_date_str, ch, cm)

\* a validation that takes a reminder without a time to be due at midnight
ValidateAgainstMidnight(date_str, time_str, current_date_str, ch, cm) ==
    IF ~IsIsoDate(current_date_str)
    THEN Invalid("Invalid isoformat string: '" \o current_date_str \o "'")
    ELSE IF TimeError(ch, cm) # "" THEN Invalid(TimeError(ch, cm))
    ELSE IF ~IsIsoDate(date_str)
    THEN Invalid("Invalid isoformat string: '" \o date_str \o "'")
    ELSE IF ~Truthy(time_str)
    THEN ValidateParsed(date_str, 0, 0, current_date_str, ch, cm)
    ELSE ValidateSplit(date_str, time_str.s, str_find(time_str.s, ":"),
                       current_date_str, ch, cm)

\* lines 387-402
ValidateAgainst(date_str, time_str, current_date_str, ch, cm) ==
    IF ~IsIsoDate(current_date_str)
    THEN Invalid("Invalid isoformat string: '" \o current_date_str \o "'")
    ELSE IF TimeError(ch, cm) # "" THEN Invalid(TimeError(ch, cm))
    ELSE IF ~IsIsoDate(date_str)
    THEN Invalid("Invalid isoformat string: '" \o date_str \o "'")
    ELSE IF ~Truthy(time_str)
    THEN ValidateParsed(date_str, 9, 0, current_date_str, ch, cm)
    ELSE ValidateSplit(date_str, time_str.s, str_find(time_str.s, ":"),
                       current_date_str, ch, cm)

\* date_str is a str, time_str a Python value ("HH:MM" or None);
\* the result is the error text or None
validate_datetime(date_str, time_str, current_datetime, wall) ==
    ValidateAgainst(date_str, time_str,
                    Get(current_datetime, "isoDate", isoformat(wall.date)),
                    Get(current_datetime, "hour", wall.hour),
                    Get(current_datetime, "minute", wall.minute))

(***************************************************************************)
(* process_reminder_data up to the append                                  *)
(***************************************************************************)
NoReminder ==
    [id |-> 0, title |-> PyNone, date |-> PyNone, time |-> PyNone,
     description |-> PyNone, completed |-> FALSE, created_at |-> ""]

Outcome(kind, exc, error, reminder) ==
    [kind |-> kind, exc |-> exc, error |-> error, reminder |-> reminder]

\* a record that keeps the date and time as the extraction stage wrote them
BuildReminderRaw(reminder_data, iso_date, converted_time, wall, store_len) ==
    [id |-> store_len + 1,
     title |-> Get(reminder_data, "title", PyStr("Reminder")),
     date |-> Get(reminder_data, "date", PyStr("today")),
     time |-> Get(reminder_data, "time", PyNone),
     description |-> Get(reminder_data, "description", PyStr("")),
     completed |-> FALSE,
     created_at |-> NowIso(wall)]

\* lines 473-481: the record, its id read from the store's length
BuildReminder(reminder_data, iso_date, converted_time, wall, store_len) ==
    [id |-> store_len + 1,
     title |-> Get(reminder_data, "title", PyStr("Reminder")),
     date |-> PyStr(iso_date),
     time |-> converted_time,
     description |-> Get(reminder_data, "description", PyStr("")),
     completed |-> FALSE,
     created_at |-> NowIso(wall)]

\* lines 460-481
Validated(reminder_data, iso_date, converted_time, validation_error, wall, store_len) ==
    IF Truthy(validation_error)
    THEN Outcome("error", "", validation_error, NoReminder)
    ELSE Outcome("reminder", "", PyNone,
                 BuildReminder(reminder_data, iso_date, converted_time, wall,
                               store_len))

\* lines 450-460: an exception of either conversion leaves the function
Converted(reminder_data, iso_date, converted_time, current_datetime, wall, store_len) ==
    IF iso_date.exc # "" THEN Outcome("raise", iso_date.exc, PyNone, NoReminder)
    ELSE IF converted_time.exc # ""
    THEN Outcome("raise", converted_time.exc, PyNone, NoReminder)
    ELSE Validated(reminder_data, iso_date.val, converted_time.val,
                   validate_datetime(iso_date.val, converted_time.val,
                                     current_datetime, wall),
                   wall, store_len)

\* lines 438-481 for a non-empty reminder_data.  kind is "error" (the
\* returned dict carries 'error'), "raise" (an exception leaves the
\* function) or "reminder" (the record built at lines 473-481, its id read
\* from the store's length store_len, not yet appended)
process_reminder_data(reminder_data, current_datetime, wall, store_len) ==
    IF Truthy(Get(reminder_data, "error", PyNone))
    THEN Outcome("error", "", reminder_data["error"], NoReminder)
    ELSE Converted(reminder_data,
                   convert_date_to_iso(Get(reminder_data, "date", PyStr("today")),
                                       current_datetime, wall),
                   convert_time_to_24h(Get(reminder_data, "time", PyNone),
                                       current_datetime, wall),
                   current_datetime, wall, store_len)

(***************************************************************************)
(* chat: the fallback reply of lines 535-550                               *)
(***************************************************************************)
Keywords ==
    {"remind", "reminder", "remember", "schedule", "appointment", "meeting"}

\* any(word in message.lower() for word in [...])
KeywordGuess(message) == \E w \in Keywords : str_contains(str_lower(message), w)

\* the first whitespace position of s, one past its end when there is none
WordEnd(s, stop) == IF stop = 0 THEN Len(s) + 1 ELSE stop

\* ' '.join(message.split()[:n]); s has no leading whitespace and its first
\* word ends before position end
RECURSIVE JoinWords(_, _)
JoinRest(s, end, rest) ==
    IF rest = "" THEN Sub(s, 1, end - 1) ELSE Sub(s, 1, end - 1) \o " " \o rest

JoinFrom(s, end, n) == JoinRest(s, end, JoinWords(Sub(s, end, Len(s)), n - 1))

JoinFirst(s, n) ==
    IF n = 0 \/ s = "" THEN ""
    ELSE JoinFrom(s, WordEnd(s, First({i \in 1..Len(s) : IsSpace(Char(s, i))})), n)

JoinWords(message, n) == JoinFirst(str_lstrip(message), n)

TitleOr(words) == IF words = "" THEN "New Chat" ELSE words

\* lines 548-549 and 567-568
FallbackTitle(message) == TitleOr(JoinWords(message, 4))

\* str(v) as an f-string renders a Python value
Format(v) ==
    IF v.t = "str" THEN v.s
    ELSE IF v.t = "none" THEN "None"
    ELSE IF v.b THEN "True" ELSE "False"

\* strip_html_tags applied to a Python value: falsy values are returned as is
CleanValue(v) == IF Truthy(v) /\ v.t = "str" THEN PyStr(strip_html_tags(v.s)) ELSE v

(***************************************************************************)
(* Bounds and program constants                                            *)
(***************************************************************************)
\* requests served in one behaviour
MaxRequests == 2

\* request threads of the concurrent specification
NumThreads == 2

\* safe_api_call(model, prompt, max_retries=2)
max_retries == 2

Threads == 1..NumThreads

(***************************************************************************)
(* State                                                                   *)
(***************************************************************************)
VARIABLES
    reminders_storage,  \* the list of stored reminder records
    chat_sessions,      \* dict: session id -> chat session object
    clock,              \* what datetime.now() reads
    client_datetime,    \* the current_datetime object the client attaches
    served,             \* requests received so far
    pc,                 \* per thread: where its handler stands
    request,            \* per thread: route and JSON body of its request
    attempt,            \* per thread: loop index of the running safe_api_call
    response_data,      \* per thread: the reply under construction in chat
    pending,            \* per thread: the reminder built and not yet appended
    response,           \* per thread: status and body returned to the caller
    chat_response,      \* per thread: the text the intent stage returned
    data_response,      \* per thread: the text the extraction stage returned
    calls,              \* per thread: generate_content calls made, per model
    before,             \* per thread: the store as its request was received
    args,               \* the arguments of a direct call of one helper
    result              \* what that call returned

vars ==
    <<reminders_storage, chat_sessions, clock, client_datetime, served, pc,
      request, attempt, response_data, pending, response, chat_response,
      data_response, calls, before, args, result>>

NoDict == [k \in {} |-> 0]

NoResponse == [status |-> 0, body |-> NoDict]

NoCalls == [chat_model |-> 0, data_model |-> 0]

\* readings of the wall clock; one behaviour is short enough to read one
WallClocks ==
    { [date |-> MkDate(2024, 6, 10), hour |-> 8, minute |-> 30],
      [date |-> MkDate(2024, 6, 11), hour |-> 22, minute |-> 15] }

\* jsonify(body), status
Reply(status, body) == [status |-> status, body |-> body]

\* request fields as chat reads them (lines 491-496)
Message(p) == Get(request[p].body, "message", "")

SessionId(p) == Get(request[p].body, "session_id", "default")

CurrentDatetime(p) == Get(request[p].body, "current_datetime", NoDict)

IsNewConversation(p) == Get(request[p].body, "is_new_conversation", FALSE)

\* chat_model.start_chat(history=[]), tagged with the thread that made it
NewSession(p) == [history |-> <<>>, made_by |-> p]

\* a thread takes a new request when it has none in progress
Free(p) == pc[p] \in {"idle", "done"} /\ served < MaxRequests

\* thread p takes a request: what every handler's entry resets
Begin(p, route, body) ==
    /\ Free(p)
    /\ served' = served + 1
    /\ request' = [request EXCEPT ![p] = [route |-> route, body |-> body]]
    /\ attempt' = [attempt EXCEPT ![p] = 0]
    /\ response_data' = [response_data EXCEPT ![p] = NoDict]
    /\ chat_response' = [chat_response EXCEPT ![p] = PyNone]
    /\ data_response' = [data_response EXCEPT ![p] = PyNone]
    /\ calls' = [calls EXCEPT ![p] = NoCalls]
    /\ before' = [before EXCEPT ![p] = reminders_storage]

\* the handler of thread p returns
Return(p, status, body) ==
    /\ response' = [response EXCEPT ![p] = Reply(status, body)]
    /\ pc' = [pc EXCEPT ![p] = "done"]

(***************************************************************************)
(* Requests and generation outcomes the model draws from                   *)
(***************************************************************************)
\* current_datetime objects: complete, short of fields, empty, malformed
ClientDatetimes ==
    { [isoDate |-> "2024-06-10", hour |-> 9, minute |-> 0],
      [isoDate |-> "2024-06-10", hour |-> 8, minute |-> 59],
      [isoDate |-> "2024-12-31"],
      NoDict,
      [isoDate |-> "10 June", hour |-> 9, minute |-> 0],
      [isoDate |-> "2024-06-10", hour |-> 24, minute |-> 0] }

\* bodies of POST /api/chat from a client whose clock reads cd
ChatBodies(cd) ==
    { [message |-> "Remind me to call John at 3 PM", session_id |-> "s1",
       current_datetime |-> cd, is_new_conversation |-> TRUE],
      [message |-> "Hello, how are <i>you</i>?", current_datetime |-> cd],
      [message |-> "", session_id |-> "s1", current_datetime |-> cd,
       is_new_conversation |-> TRUE],
      [session_id |-> "s1", current_datetime |-> cd] }

Returned(text) == [raised |-> FALSE, text |-> text]

Raised(text) == [raised |-> TRUE, text |-> text]

\* what one generate_content call of the intent stage may do
IntentOutcomes ==
    { Raised("503 The model is overloaded"),
      Returned("{\"message\": \"I'll set a reminder for you to call John at 3 PM.\", \"trigger\": true}"),
      Returned("~~~json\n{\"message\": \"Sure.<br><b>Reminder</b> set\", \"trigger\": true, \"title\": \"Call John\"}\n~~~"),
      Returned("{\"message\": \"Hello! How can I help you today?\", \"trigger\": false}"),
      Returned("I'm sorry, I can't help with that."),
      Returned("{}") }

\* what one generate_content call of the extraction stage may do
ExtractOutcomes ==
    { Raised("503 The model is overloaded"),
      Returned("{\"title\": \"Call John\", \"date\": \"today\", \"time\": \"15:00\", \"description\": \"\", \"error\": null}"),
      Returned("{\"title\": \"Call John\", \"date\": \"today\", \"time\": \"09:00\"}"),
      Returned("{\"title\": \"Call John\", \"date\": \"today\"}"),
      Returned("{\"title\": \"Call John\", \"date\": \"today\", \"time\": \"in 2 hours\"}"),
      Returned("{\"title\": \"Reminder\", \"date\": \"yesterday\", \"time\": null, \"description\": \"\", \"error\": \"Cannot set reminder for past date\"}"),
      Returned("{\"title\": \"Reminder\", \"date\": \"yesterday\", \"time\": null, \"description\": \"\", \"error\": null}"),
      Returned("{\"title\": \"Call John\", \"date\": \"today\", \"time\": \"13pm\"}"),
      Returned("{\"title\": \"Call John\", \"date\": true}"),
      Returned("Here is the reminder you asked for"),
      Returned("{}") }

\* parse_json_response of each text a stage may return, computed once
Decoded ==
    [text \in {o.text : o \in IntentOutcomes \cup ExtractOutcomes} |->
        parse_json_response(text)]

\* process_reminder_data of each candidate the extraction stage may return,
\* under each 'now' and wall-clock reading, computed once for an empty store
Processing ==
    [text \in {o.text : o \in ExtractOutcomes}, cd \in ClientDatetimes,
     w \in WallClocks |->
        IF Decoded[text].ok /\ DOMAIN Decoded[text].data # {}
        THEN process_reminder_data(Decoded[text].data, cd, w, 0)
        ELSE Outcome("raise", "", PyNone, NoReminder)]

\* line 474: 'id': len(reminders_storage) + 1, read as the record is built
ProcessedWith(text, current_datetime, wall, store_len) ==
    IF Processing[text, current_datetime, wall].kind = "reminder"
    THEN [Processing[text, current_datetime, wall]
             EXCEPT !.reminder.id = store_len + 1]
    ELSE Processing[text, current_datetime, wall]

ManualBodies ==
    { [title |-> PyStr("Buy milk"), date |-> PyStr("2024-06-12"),
       time |-> PyStr("18:00"), description |-> PyStr("")],
      [title |-> PyStr("Buy milk")],
      [title |-> PyStr("Buy milk"), date |-> PyStr("tomorrow")],
      [date |-> PyStr("2024-06-18")] }

NewChatBodies == { [session_id |-> "s1"], NoDict }

(***************************************************************************)
(* chat (POST /api/chat)                                                   *)
(***************************************************************************)
\* a handler that does not look at the message before going on
ChatReceiveUnchecked(p, body) ==
    /\ Begin(p, "chat", body)
    /\ pending' = [pending EXCEPT ![p] = NoReminder]
    /\ response' = [response EXCEPT ![p] = NoResponse]
    /\ pc' = [pc EXCEPT ![p] = "session"]
    /\ UNCHANGED <<reminders_storage, chat_sessions, clock, client_datetime, args, result>>

\* lines 489-499: read the body; an empty message is answered 400
ChatReceive(p, body) ==
    /\ Begin(p, "chat", body)
    /\ pending' = [pending EXCEPT ![p] = NoReminder]
    /\ IF Get(body, "message", "") = ""
       THEN /\ response' = [response EXCEPT ![p] =
                   Reply(400, [error |-> PyStr("Message is required")])]
            /\ pc' = [pc EXCEPT ![p] = "done"]
       ELSE /\ response' = [response EXCEPT ![p] = NoResponse]
            /\ pc' = [pc EXCEPT ![p] = "session"]
    /\ UNCHANGED <<reminders_storage, chat_sessions, clock, client_datetime, args, result>>

\* line 529: if session_id not in chat_sessions
ChatLookupSession(p) ==
    /\ pc[p] = "session"
    /\ pc' = [pc EXCEPT ![p] =
           IF SessionId(p) \in DOMAIN chat_sessions THEN "intent"
           ELSE "start_chat"]
    /\ UNCHANGED <<reminders_storage, chat_sessions, clock, client_datetime, args, result,
                   served, request, attempt, response_data, pending,
                   response, calls, before, chat_response, data_response>>

\* line 530: chat_sessions[session_id] = chat_model.start_chat(history=[])
ChatStartSession(p) ==
    /\ pc[p] = "start_chat"
    /\ chat_sessions' = Put(chat_sessions, SessionId(p), NewSession(p))
    /\ pc' = [pc EXCEPT ![p] = "intent"]
    /\ UNCHANGED <<reminders_storage, clock, client_datetime, args, result, served,
                   request, attempt, response_data, pending, response, calls,
                   before, chat_response, data_response>>

\* a fallback reply that never guesses a reminder
FallbackResponseNoGuess(p) ==
    [message |-> PyStr(strip_html_tags("I understand your message: '"
                         \o Message(p) \o "'. How can I help you?")),
     trigger |-> PyBool(FALSE),
     session_id |-> PyStr(SessionId(p))]

\* lines 535-550: the reply when the intent stage's text does not decode
FallbackResponse(p) ==
    LET base ==
            [message |-> PyStr(strip_html_tags("I understand your message: '"
                                 \o Message(p) \o "'. How can I help you?")),
             trigger |-> PyBool(KeywordGuess(Message(p))),
             session_id |-> PyStr(SessionId(p))]
    IN  IF IsNewConversation(p)
        THEN Put(base, "title", PyStr(FallbackTitle(Message(p))))
        ELSE base

\* lines 553-569: the reply built from the decoded intent stage output
IntentResponse(p, chat_data) ==
    LET base ==
            [message |-> CleanValue(Get(chat_data, "message",
                                        PyStr("I understand your message."))),
             trigger |-> Get(chat_data, "trigger", PyBool(FALSE)),
             session_id |-> PyStr(SessionId(p))]
    IN  IF IsNewConversation(p) /\ Truthy(Get(chat_data, "title", PyNone))
        THEN Put(base, "title", chat_data["title"])
        ELSE IF IsNewConversation(p)
        THEN Put(base, "title", PyStr(FallbackTitle(Message(p))))
        ELSE base

\* a handler that goes on to the extraction stage whatever the trigger is
IntentDecodedAnyTrigger(p, chat_data) ==
    IF ~chat_data.ok \/ DOMAIN chat_data.data = {}
    THEN /\ Return(p, 200, FallbackResponse(p))
         /\ UNCHANGED <<attempt, response_data>>
    ELSE /\ response_data' = [response_data EXCEPT ![p] =
                IntentResponse(p, chat_data.data)]
         /\ attempt' = [attempt EXCEPT ![p] = 0]
         /\ pc' = [pc EXCEPT ![p] = "extract"]
         /\ UNCHANGED response

\* lines 533-574: the decoded text of the intent stage becomes the reply; a
\* truthy trigger sends the request on to the extraction stage
IntentDecoded(p, chat_data) ==
    IF ~chat_data.ok \/ DOMAIN chat_data.data = {}
    THEN /\ Return(p, 200, FallbackResponse(p))
         /\ UNCHANGED <<attempt, response_data>>
    ELSE IF Truthy(Get(chat_data.data, "trigger", PyNone))
    THEN /\ response_data' = [response_data EXCEPT ![p] =
                IntentResponse(p, chat_data.data)]
         /\ attempt' = [attempt EXCEPT ![p] = 0]
         /\ pc' = [pc EXCEPT ![p] = "extract"]
         /\ UNCHANGED response
    ELSE /\ Return(p, 200, IntentResponse(p, chat_data.data))
         /\ UNCHANGED <<attempt, response_data>>

\* a call that tries again when the returned text does not decode
IntentCallRetriesUndecoded(p, outcome) ==
    /\ pc[p] = "intent"
    /\ calls' = [calls EXCEPT ![p].chat_model = @ + 1]
    /\ IF outcome.raised \/ ~Decoded[outcome.text].ok
       THEN IF attempt[p] = max_retries - 1
            THEN /\ Return(p, 500, [error |-> PyStr(outcome.text)])
                 /\ UNCHANGED <<attempt, response_data>>
            ELSE /\ attempt' = [attempt EXCEPT ![p] = @ + 1]
                 /\ UNCHANGED <<pc, response, response_data>>
       ELSE IntentDecoded(p, Decoded[outcome.text])
    /\ chat_response' = [chat_response EXCEPT ![p] =
           IF outcome.raised THEN @ ELSE PyStr(outcome.text)]
    /\ UNCHANGED <<reminders_storage, chat_sessions, clock, client_datetime, args, result,
                   served, request, pending, before, data_response>>

\* lines 532-574 and 617-619: one attempt of safe_api_call(chat_model, ...).
\* It raises (outcome.raised) or returns outcome.text; the last attempt's
\* exception reaches the handler's except clause, a returned text is decoded
\* and the reply is built
IntentCall(p, outcome) ==
    /\ pc[p] = "intent"
    /\ calls' = [calls EXCEPT ![p].chat_model = @ + 1]
    /\ IF outcome.raised
       THEN IF attempt[p] = max_retries - 1
            THEN /\ Return(p, 500, [error |-> PyStr(outcome.text)])
                 /\ UNCHANGED <<attempt, response_data>>
            ELSE /\ attempt' = [attempt EXCEPT ![p] = @ + 1]
                 /\ UNCHANGED <<pc, response, response_data>>
       ELSE IntentDecoded(p, Decoded[outcome.text])
    /\ chat_response' = [chat_response EXCEPT ![p] =
           IF outcome.raised THEN @ ELSE PyStr(outcome.text)]
    /\ UNCHANGED <<reminders_storage, chat_sessions, clock, client_datetime, args, result,
                   served, request, pending, before, data_response>>

\* a rejection that leaves the intent stage's trigger in the reply
RejectedKeepsTrigger(reply, error) ==
    Put(Put(reply,
        "message", PyStr("Sorry, I couldn't set that reminder: " \o Format(error))),
        "error", error)

\* lines 599-604: the reply of a rejected candidate
Rejected(reply, error) ==
    Put(Put(Put(reply,
        "message", PyStr("Sorry, I couldn't set that reminder: " \o Format(error))),
        "trigger", PyBool(FALSE)),
        "error", error)

\* lines 596-612: what process_reminder_data gave decides the reply
ExtractProcessed(p, processed) ==
    IF processed.kind = "raise"
    THEN /\ Return(p, 200, response_data[p])
         /\ UNCHANGED <<attempt, pending>>
    ELSE IF processed.kind = "error"
    THEN /\ Return(p, 200, Rejected(response_data[p], processed.error))
         /\ UNCHANGED <<attempt, pending>>
    ELSE /\ pending' = [pending EXCEPT ![p] = processed.reminder]
         /\ pc' = [pc EXCEPT ![p] = "append"]
         /\ UNCHANGED <<attempt, response>>

\* lines 592-596: if reminder_data: ... process_reminder_data(...), for the
\* text the extraction stage returned
ExtractDecoded(p, text) ==
    IF ~Decoded[text].ok \/ DOMAIN Decoded[text].data = {}
    THEN /\ Return(p, 200, response_data[p])
         /\ UNCHANGED <<attempt, pending>>
    ELSE ExtractProcessed(p,
             ProcessedWith(text, CurrentDatetime(p), clock,
                           Len(reminders_storage)))

\* an extraction call whose last exception reaches the handler's except clause
ExtractCallUncaught(p, outcome) ==
    /\ pc[p] = "extract"
    /\ calls' = [calls EXCEPT ![p].data_model = @ + 1]
    /\ IF outcome.raised
       THEN IF attempt[p] = max_retries - 1
            THEN /\ Return(p, 500, [error |-> PyStr(outcome.text)])
                 /\ UNCHANGED <<attempt, pending>>
            ELSE /\ attempt' = [attempt EXCEPT ![p] = @ + 1]
                 /\ UNCHANGED <<pc, response, pending>>
       ELSE ExtractDecoded(p, outcome.text)
    /\ data_response' = [data_response EXCEPT ![p] =
           IF outcome.raised THEN @ ELSE PyStr(outcome.text)]
    /\ UNCHANGED <<reminders_storage, chat_sessions, clock, client_datetime, args, result,
                   served, request, response_data, before, chat_response>>

\* lines 577-615: one attempt of safe_api_call(data_model, ...), then the
\* decoding and processing of its text up to the reminder record being built.
\* Every exception is caught at line 612 and the reply is returned as it is
ExtractCall(p, outcome) ==
    /\ pc[p] = "extract"
    /\ calls' = [calls EXCEPT ![p].data_model = @ + 1]
    /\ IF outcome.raised
       THEN IF attempt[p] = max_retries - 1
            THEN /\ Return(p, 200, response_data[p])
                 /\ UNCHANGED <<attempt, pending>>
            ELSE /\ attempt' = [attempt EXCEPT ![p] = @ + 1]
                 /\ UNCHANGED <<pc, response, pending>>
       ELSE ExtractDecoded(p, outcome.text)
    /\ data_response' = [data_response EXCEPT ![p] =
           IF outcome.raised THEN @ ELSE PyStr(outcome.text)]
    /\ UNCHANGED <<reminders_storage, chat_sessions, clock, client_datetime, args, result,
                   served, request, response_data, before, chat_response>>

\* an append whose reply does not carry the reminder
ChatAppendSilent(p) ==
    /\ pc[p] = "append"
    /\ reminders_storage' = Append(reminders_storage, pending[p])
    /\ Return(p, 200, response_data[p])
    /\ UNCHANGED <<chat_sessions, clock, client_datetime, args, result, served, request,
                   attempt, response_data, pending, calls, before,
                   chat_response, data_response>>

\* lines 483-485 and 605-615: reminders_storage.append(reminder), and the
\* reply carries the reminder
ChatAppend(p) ==
    /\ pc[p] = "append"
    /\ reminders_storage' = Append(reminders_storage, pending[p])
    /\ Return(p, 200, Put(response_data[p], "reminder_created", pending[p]))
    /\ UNCHANGED <<chat_sessions, clock, client_datetime, args, result, served, request,
                   attempt, response_data, pending, calls, before,
                   chat_response, data_response>>

(***************************************************************************)
(* new_chat, create_manual_reminder                                        *)
(***************************************************************************)
\* a new_chat that starts the session store over with the one session
NewChatAlone(p, body) ==
    /\ Begin(p, "new_chat", body)
    /\ chat_sessions' = Put(NoDict, Get(body, "session_id", "default"),
                            NewSession(p))
    /\ response' = [response EXCEPT ![p] =
           Reply(200, [message |-> PyStr("New chat session created"),
                       session_id |-> PyStr(Get(body, "session_id", "default"))])]
    /\ pc' = [pc EXCEPT ![p] = "done"]
    /\ pending' = [pending EXCEPT ![p] = NoReminder]
    /\ UNCHANGED <<reminders_storage, clock, client_datetime, args, result>>

\* lines 622-634
NewChat(p, body) ==
    /\ Begin(p, "new_chat", body)
    /\ chat_sessions' = Put(chat_sessions, Get(body, "session_id", "default"),
                            NewSession(p))
    /\ response' = [response EXCEPT ![p] =
           Reply(200, [message |-> PyStr("New chat session created"),
                       session_id |-> PyStr(Get(body, "session_id", "default"))])]
    /\ pc' = [pc EXCEPT ![p] = "done"]
    /\ pending' = [pending EXCEPT ![p] = NoReminder]
    /\ UNCHANGED <<reminders_storage, clock, client_datetime, args, result>>

\* a manual creation that numbers its record from the store's length itself
ManualReceiveFromZero(p, body) ==
    /\ Begin(p, "manual", body)
    /\ pending' = [pending EXCEPT ![p] =
           [id |-> Len(reminders_storage),
            title |-> Get(body, "title", PyStr("")),
            date |-> Get(body, "date", PyStr(isoformat(clock.date))),
            time |-> Get(body, "time", PyNone),
            description |-> Get(body, "description", PyStr("")),
            completed |-> FALSE,
            created_at |-> NowIso(clock)]]
    /\ response' = [response EXCEPT ![p] = NoResponse]
    /\ pc' = [pc EXCEPT ![p] = "manual_append"]
    /\ UNCHANGED <<reminders_storage, chat_sessions, clock, client_datetime, args, result>>

\* lines 696-706: the record is built, its id read from the store's length
ManualReceive(p, body) ==
    /\ Begin(p, "manual", body)
    /\ pending' = [pending EXCEPT ![p] =
           [id |-> Len(reminders_storage) + 1,
            title |-> Get(body, "title", PyStr("")),
            date |-> Get(body, "date", PyStr(isoformat(clock.date))),
            time |-> Get(body, "time", PyNone),
            description |-> Get(body, "description", PyStr("")),
            completed |-> FALSE,
            created_at |-> NowIso(clock)]]
    /\ response' = [response EXCEPT ![p] = NoResponse]
    /\ pc' = [pc EXCEPT ![p] = "manual_append"]
    /\ UNCHANGED <<reminders_storage, chat_sessions, clock, client_datetime, args, result>>

\* lines 708-713
ManualAppend(p) ==
    /\ pc[p] = "manual_append"
    /\ reminders_storage' = Append(reminders_storage, pending[p])
    /\ Return(p, 200, [message |-> PyStr("Reminder created successfully"),
                       reminder |-> pending[p]])
    /\ UNCHANGED <<chat_sessions, clock, client_datetime, args, result, served, request,
                   attempt, response_data, pending, calls, before,
                   chat_response, data_response>>

(***************************************************************************)
(* get_reminders (GET /api/reminders)                                      *)
(***************************************************************************)
\* lines 657-660: the text handed to fromisoformat, cut at the first 'T'
DateText(s) == IF str_contains(s, "T") THEN FieldBefore(s, str_find(s, "T")) ELSE s

\* lines 655-660: reminder_date can be read; a date that is absent is passed
\* over, one that raises is passed over by the except clause
HasListedDate(reminder) ==
    /\ Truthy(reminder.date)
    /\ reminder.date.t = "str"
    /\ IsIsoDate(DateText(reminder.date.s))

reminder_date(reminder) == fromisoformat(DateText(reminder.date.s))

\* a window that ends the day before next_week
BeforeNextWeek(date, today, next_week) ==
    ~DateLess(date, today) /\ DateLess(date, next_week)

\* line 670: today <= reminder_date <= next_week
InNextWeek(date, today, next_week) ==
    ~DateLess(date, today) /\ ~DateLess(next_week, date)

\* lines 654-667
ListedToday(reminder) ==
    /\ ~reminder.completed
    /\ HasListedDate(reminder)
    /\ reminder_date(reminder) = clock.date

\* lines 654-672
ListedUpcoming(reminder) ==
    /\ ~reminder.completed
    /\ HasListedDate(reminder)
    /\ InNextWeek(reminder_date(reminder), clock.date, AddDays(clock.date, 7))

\* lines 643-686: the three lists, read from the store in one pass
GetReminders(p) ==
    /\ Begin(p, "list", NoDict)
    /\ Return(p, 200,
              [today_reminders |-> SelectSeq(reminders_storage, ListedToday),
               upcoming_reminders |->
                   SelectSeq(reminders_storage, ListedUpcoming),
               all_reminders |-> reminders_storage])
    /\ pending' = [pending EXCEPT ![p] = NoReminder]
    /\ UNCHANGED <<reminders_storage, chat_sessions, clock, client_datetime,
                   args, result>>

\* result before the helper has returned
NotCalled == [t |-> "pending", s |-> "", b |-> FALSE]

\* the server as it comes up: nothing stored, no request in hand
Started ==
    /\ reminders_storage = <<>>
    /\ chat_sessions = NoDict
    /\ served = 0
    /\ pc = [p \in Threads |-> "idle"]
    /\ request = [p \in Threads |-> [route |-> "", body |-> NoDict]]
    /\ attempt = [p \in Threads |-> 0]
    /\ response_data = [p \in Threads |-> NoDict]
    /\ pending = [p \in Threads |-> NoReminder]
    /\ response = [p \in Threads |-> NoResponse]
    /\ chat_response = [p \in Threads |-> PyNone]
    /\ data_response = [p \in Threads |-> PyNone]
    /\ calls = [p \in Threads |-> NoCalls]
    /\ before = [p \in Threads |-> <<>>]

Init ==
    /\ Started
    /\ clock \in WallClocks
    /\ client_datetime \in ClientDatetimes
    /\ args = NoDict
    /\ result = NotCalled

(***************************************************************************)
(* Specifications                                                          *)
(***************************************************************************)
\* one step of thread p
Step(p) ==
    \/ \E body \in ChatBodies(client_datetime) : ChatReceive(p, body)
    \/ ChatLookupSession(p)
    \/ ChatStartSession(p)
    \/ \E outcome \in IntentOutcomes : IntentCall(p, outcome)
    \/ \E outcome \in ExtractOutcomes : ExtractCall(p, outcome)
    \/ ChatAppend(p)
    \/ \E body \in NewChatBodies : NewChat(p, body)
    \/ \E body \in ManualBodies : ManualReceive(p, body)
    \/ ManualAppend(p)
    \/ GetReminders(p)

\* requests are served one at a time
Next == Step(1)

Spec == Init /\ [][Next]_vars

\* a handler that has a step to take takes it: its thread keeps running, and
\* each generate_content call eventually returns or raises
SpecFair == Spec /\ WF_vars(Next)

(***************************************************************************)
(* The threaded server: app.run serves each request on a thread of its     *)
(* own, so handlers interleave step by step.  The requests are the ones    *)
(* that reach the store; every generation call returns and decodes.        *)
(***************************************************************************)
ConcChatBodies(cd) ==
    {body \in ChatBodies(cd) :
        Get(body, "message", "") # "" /\ "session_id" \in DOMAIN body}

ConcIntentOutcomes ==
    {o \in IntentOutcomes :
        ~o.raised /\ DOMAIN Decoded[o.text].data = {"message", "trigger"}}

ConcExtractOutcomes ==
    {o \in ExtractOutcomes :
        ~o.raised /\ Get(Decoded[o.text].data, "time", PyNone) = PyStr("15:00")}

InitConc ==
    /\ Init
    /\ client_datetime = [isoDate |-> "2024-06-10", hour |-> 9, minute |-> 0]
    /\ clock.hour = 8

StepConc(p) ==
    \/ \E body \in ConcChatBodies(client_datetime) : ChatReceive(p, body)
    \/ ChatLookupSession(p)
    \/ ChatStartSession(p)
    \/ \E outcome \in ConcIntentOutcomes : IntentCall(p, outcome)
    \/ \E outcome \in ConcExtractOutcomes : ExtractCall(p, outcome)
    \/ ChatAppend(p)
    \/ \E body \in NewChatBodies : NewChat(p, body)
    \/ \E body \in ManualBodies : ManualReceive(p, body)
    \/ ManualAppend(p)
    \/ GetReminders(p)

NextConc == \E p \in Threads : StepConc(p)

SpecConc == InitConc /\ [][NextConc]_vars

(***************************************************************************)
(* validate_datetime called on its own                                     *)
(***************************************************************************)
MaxDayOffset == 1

MinutesPerDay == 24 * 60

MinuteOf(now) == now.hour * 60 + now.minute

\* the current date and time the caller passes
ValidateNows ==
    { [date |-> MkDate(2024, 6, 10), hour |-> 9, minute |-> 0],
      [date |-> MkDate(2024, 12, 31), hour |-> 23, minute |-> 59],
      [date |-> MkDate(2024, 3, 1), hour |-> 0, minute |-> 0],
      [date |-> MkDate(2025, 1, 1), hour |-> 12, minute |-> 30] }

\* minutes of the day around the current one, and the day's two ends
ValidateMinutes(now) ==
    ({0, MinutesPerDay - 1}
       \cup {MinuteOf(now) + k : k \in {-60, -1, 0, 1, 60}})
    \cap (0..(MinutesPerDay - 1))

\* the dict the client attaches for the instant now
DatetimeDict(now) ==
    [isoDate |-> isoformat(now.date), hour |-> now.hour,
     minute |-> now.minute]

\* date_str, time_str and current_datetime for the instant now, with the
\* numbers they stand for: the reminder is due `ahead` days after now.date
\* at minute `at` of the day
ValidateArgsAt(now) ==
    { [now |-> now, ahead |-> ahead, at |-> at,
       date_str |-> isoformat(AddDays(now.date, ahead)),
       time_str |-> PyStr(FormatHM(at \div 60, at % 60)),
       current_datetime |-> DatetimeDict(now)] :
        ahead \in (-MaxDayOffset)..MaxDayOffset, at \in ValidateMinutes(now) }

ValidateArgs == UNION {ValidateArgsAt(now) : now \in ValidateNows}

InitValidate ==
    /\ Started
    /\ clock \in WallClocks
    /\ args \in ValidateArgs
    /\ client_datetime = args.current_datetime
    /\ result = NotCalled

ValidateCall ==
    /\ result = NotCalled
    /\ result' = validate_datetime(args.date_str, args.time_str,
                                   client_datetime, clock)
    /\ UNCHANGED <<reminders_storage, chat_sessions, clock, client_datetime,
                   served, pc, request, attempt, response_data, pending,
                   response, chat_response, data_response, calls, before,
                   args>>

SpecValidate == InitValidate /\ [][ValidateCall]_vars

(***************************************************************************)
(* strip_html_tags called on its own                                       *)
(***************************************************************************)
MaxTextLen == 4

\* the characters the texts are written in: both brackets, a letter, a space
TextChars == {"<", ">", "a", " "}

\* the texts in S and each of them with one more character
Longer(S) == S \cup {t \o c : t \in S, c \in TextChars}

RECURSIVE TextsUpTo(_)
\* the texts of at most n characters
TextsUpTo(n) == IF n = 0 THEN {""} ELSE Longer(TextsUpTo(n - 1))

InitSanitize ==
    /\ Started
    /\ clock \in WallClocks
    /\ client_datetime = NoDict
    /\ args \in {[text |-> x] : x \in TextsUpTo(MaxTextLen)}
    /\ result = NotCalled

SanitizeCall ==
    /\ result = NotCalled
    /\ result' = PyStr(strip_html_tags(args.text))
    /\ UNCHANGED <<reminders_storage, chat_sessions, clock, client_datetime,
                   served, pc, request, attempt, response_data, pending,
                   response, chat_response, data_response, calls, before,
                   args>>

SpecSanitize == InitSanitize /\ [][SanitizeCall]_vars

(***************************************************************************)
(* convert_date_to_iso called on its own with the name of a weekday        *)
(***************************************************************************)
MaxDaysOn == 13

\* the current dates: two runs of days, one over the end of a leap
\* February, one over the end of a year
WeekdayTodays ==
    {AddDays(first, k) : first \in {MkDate(2024, 2, 24), MkDate(2024, 12, 24)},
                         k \in 0..MaxDaysOn}

\* what a helper returned, or the exception it raised
CallOutcome(r, val) ==
    IF r.exc = "" THEN val ELSE [t |-> "raised", s |-> r.exc, b |-> FALSE]

InitWeekday ==
    /\ Started
    /\ clock \in WallClocks
    /\ args \in {[date_str |-> PyStr(DayNames[day]), day |-> day,
                  today |-> today] :
                    day \in 1..7, today \in WeekdayTodays}
    /\ client_datetime = [isoDate |-> isoformat(args.today)]
    /\ result = NotCalled

ConvertDateResult(r) == CallOutcome(r, PyStr(r.val))

WeekdayCall ==
    /\ result = NotCalled
    /\ result' = ConvertDateResult(
                     convert_date_to_iso(args.date_str, client_datetime, clock))
    /\ UNCHANGED <<reminders_storage, chat_sessions, clock, client_datetime,
                   served, pc, request, attempt, response_data, pending,
                   response, chat_response, data_response, calls, before,
                   args>>

SpecWeekday == InitWeekday /\ [][WeekdayCall]_vars

(***************************************************************************)
(* convert_time_to_24h called on its own with a 12-hour time               *)
(***************************************************************************)
\* "H am" and "H:MM am" for the hour H, the suffix in either case, with and
\* without a space before it; minute is -1 when the text names none
TwelveHourArgs(hour) ==
    { [time_str |-> PyStr(DecString(hour)
                          \o (IF minute < 0 THEN ""
                              ELSE ":" \o ZeroPad(minute, 2))
                          \o space \o suffix),
       hour |-> hour, minute |-> minute, pm |-> suffix \in {"pm", "PM"}] :
        minute \in (-1)..59, space \in {"", " "},
        suffix \in {"am", "pm", "AM", "PM"} }

InitTwelveHour ==
    /\ Started
    /\ clock \in WallClocks
    /\ client_datetime = [isoDate |-> "2024-06-10", hour |-> 9, minute |-> 0]
    /\ args \in UNION {TwelveHourArgs(hour) : hour \in 1..12}
    /\ result = NotCalled

ConvertTimeResult(r) == CallOutcome(r, r.val)

TwelveHourCall ==
    /\ result = NotCalled
    /\ result' = ConvertTimeResult(
                     convert_time_to_24h(args.time_str, client_datetime, clock))
    /\ UNCHANGED <<reminders_storage, chat_sessions, clock, client_datetime,
                   served, pc, request, attempt, response_data, pending,
                   response, chat_response, data_response, calls, before,
                   args>>

SpecTwelveHour == InitTwelveHour /\ [][TwelveHourCall]_vars

(***************************************************************************)
(* convert_date_to_iso called on its own with a month name and a day       *)
(***************************************************************************)
\* current dates: the ends of February in a leap and a common year, the
\* day after a leap day, a day in mid-year, the two sides of a year's end
MonthDayTodays ==
    { MkDate(2023, 2, 28), MkDate(2024, 2, 29), MkDate(2024, 3, 1),
      MkDate(2024, 6, 10), MkDate(2024, 12, 31), MkDate(2025, 1, 1) }

\* day numbers: the first, the current mid-year day, the ends of the months
MonthDayDays == {1, 10, 28, 29, 30, 31}

\* "16 july", "july 16", "16 jul", "jul 16"
MonthDayTexts(month, day) ==
    { DecString(day) \o " " \o MonthNames[month],
      MonthNames[month] \o " " \o DecString(day),
      DecString(day) \o " " \o MonthAbbrs[month],
      MonthAbbrs[month] \o " " \o DecString(day) }

MonthDayArgs(today, month, day) ==
    {[date_str |-> PyStr(text), month |-> month, day |-> day,
      today |-> today] : text \in MonthDayTexts(month, day)}

InitMonthDay ==
    /\ Started
    /\ clock \in WallClocks
    /\ args \in UNION {MonthDayArgs(today, month, day) :
                          today \in MonthDayTodays, month \in 1..12,
                          day \in MonthDayDays}
    /\ client_datetime = [isoDate |-> isoformat(args.today)]
    /\ result = NotCalled

MonthDayCall ==
    /\ result = NotCalled
    /\ result' = ConvertDateResult(
                     convert_date_to_iso(args.date_str, client_datetime, clock))
    /\ UNCHANGED <<reminders_storage, chat_sessions, clock, client_datetime,
                   served, pc, request, attempt, response_data, pending,
                   response, chat_response, data_response, calls, before,
                   args>>

SpecMonthDay == InitMonthDay /\ [][MonthDayCall]_vars

(***************************************************************************)
(* convert_time_to_24h called on its own with a relative time              *)
(***************************************************************************)
MaxOffset == 3

\* N: the small numbers, and numbers around an hour and around a day
RelativeOffsets == (0..MaxOffset) \cup {23, 24, 59, 60, 61, 1439, 1440, 1441}

\* "in N hours", "next N hours", "in N minutes", "next N minutes"
RelativeArgs(now, n) ==
    {[time_str |-> PyStr(lead \o " " \o DecString(n) \o " " \o unit),
      unit |-> unit, n |-> n, now |-> now] :
        lead \in {"in", "next"}, unit \in {"hours", "minutes"}}

InitRelative ==
    /\ Started
    /\ clock \in WallClocks
    /\ args \in UNION {RelativeArgs(now, n) :
                          now \in ValidateNows, n \in RelativeOffsets}
    /\ client_datetime = DatetimeDict(args.now)
    /\ result = NotCalled

RelativeCall ==
    /\ result = NotCalled
    /\ result' = ConvertTimeResult(
                     convert_time_to_24h(args.time_str, client_datetime, clock))
    /\ UNCHANGED <<reminders_storage, chat_sessions, clock, client_datetime,
                   served, pc, request, attempt, response_data, pending,
                   response, chat_response, data_response, calls, before,
                   args>>

SpecRelative == InitRelative /\ [][RelativeCall]_vars

(***************************************************************************)
(* convert_time_to_24h called on its own with a time that may be none      *)
(***************************************************************************)
MaxHourText == 25

\* texts that are no time of day at all
NoTimeTexts == {"soon", "later today", "99", "at 5", "half past"}

\* "H am", "Hpm", "H:MM" for hours up to MaxHourText and minutes that exist
\* and that do not; valid tells whether the text is a time of day
TimeTextArgs ==
    {[time_str |-> PyStr(DecString(h) \o suffix), valid |-> h \in 1..12] :
        h \in 0..MaxHourText, suffix \in {"am", "pm", " am", " pm"}}
    \cup
    {[time_str |-> PyStr(DecString(h) \o ":" \o ZeroPad(m, 2)),
      valid |-> h \in 0..23 /\ m \in 0..59] :
        h \in 0..MaxHourText, m \in {0, 30, 59, 60, 75}}
    \cup
    {[time_str |-> PyStr(text), valid |-> FALSE] : text \in NoTimeTexts}

InitTimeText ==
    /\ Started
    /\ clock \in WallClocks
    /\ client_datetime = [isoDate |-> "2024-06-10", hour |-> 9, minute |-> 0]
    /\ args \in TimeTextArgs
    /\ result = NotCalled

TimeTextCall ==
    /\ result = NotCalled
    /\ result' = ConvertTimeResult(
                     convert_time_to_24h(args.time_str, client_datetime, clock))
    /\ UNCHANGED <<reminders_storage, chat_sessions, clock, client_datetime,
                   served, pc, request, attempt, response_data, pending,
                   response, chat_response, data_response, calls, before,
                   args>>

SpecTimeText == InitTimeText /\ [][TimeTextCall]_vars

(***************************************************************************)
(* parse_json_response called on its own                                   *)
(***************************************************************************)
\* JSON objects as a stage writes them, each with the object it stands for
DecodeObjects ==
    { [text |-> "{\"trigger\": true}",
       object |-> [trigger |-> PyBool(TRUE)]],
      [text |-> "{\"message\": \"Sure, noted.\", \"trigger\": false}",
       object |-> [message |-> PyStr("Sure, noted."),
                   trigger |-> PyBool(FALSE)]],
      [text |-> "{\"title\": \"Call John\", \"date\": \"today\", \"time\": null}",
       object |-> [title |-> PyStr("Call John"), date |-> PyStr("today"),
                   time |-> PyNone]] }

\* prose before and after the object, with and without braces in it
LeadingProse == {"", "Here is the result: ", "As {requested}: ", "\n"}

TrailingProse == {"", " Hope this helps.", " {end}", "\n"}

\* the opening and closing marker of a code fence, or none
Fences ==
    { [open |-> "", close |-> ""],
      [open |-> Fence \o "json\n", close |-> "\n" \o Fence],
      [open |-> Fence \o "\n", close |-> "\n" \o Fence] }

\* one object inside an optional fence inside optional prose
DecodeArgs ==
    {[response_text |-> lead \o f.open \o o.text \o f.close \o trail,
      decodable |-> TRUE, object |-> o.object] :
        lead \in LeadingProse, f \in Fences, o \in DecodeObjects,
        trail \in TrailingProse}
    \cup
    {[response_text |-> text, decodable |-> FALSE, object |-> EmptyDict] :
        text \in {"", "I'm sorry, I can't help with that.", "{oops",
                  "{\"trigger\": tru}", Fence \o "json\n" \o Fence}}

InitDecode ==
    /\ Started
    /\ clock \in WallClocks
    /\ client_datetime = NoDict
    /\ args \in DecodeArgs
    /\ result = NotCalled

\* the dict parse_json_response returned, or None
DecodeResult(parsed) ==
    [t |-> IF parsed.ok THEN "dict" ELSE "none", s |-> "", b |-> FALSE,
     data |-> parsed.data]

DecodeCall ==
    /\ result = NotCalled
    /\ result' = DecodeResult(parse_json_response(args.response_text))
    /\ UNCHANGED <<reminders_storage, chat_sessions, clock, client_datetime,
                   served, pc, request, attempt, response_data, pending,
                   response, chat_response, data_response, calls, before,
                   args>>

SpecDecode == InitDecode /\ [][DecodeCall]_vars

(***************************************************************************)
(* Properties                                                              *)
(***************************************************************************)
\* thread p has answered a chat request
ChatDone(p) == pc[p] = "done" /\ request[p].route = "chat"

\* the reply thread p returned
Body(p) == response[p].body

\* the decoded outputs of the two stages in p's request
ChatData(p) == Decoded[chat_response[p].s]

ReminderData(p) == Decoded[data_response[p].s]

\* the intent stage returned a text that decodes to {..., trigger: true}
TriggerTrue(p) ==
    /\ chat_response[p] # PyNone
    /\ ChatData(p).ok
    /\ Get(ChatData(p).data, "trigger", PyNone) = PyBool(TRUE)

\* the extraction stage returned a text that decodes to a candidate; an empty
\* object is none: line 594 passes it by before any conversion or validation
HasCandidate(p) ==
    /\ data_response[p] # PyNone
    /\ ReminderData(p).ok
    /\ DOMAIN ReminderData(p).data # {}

\* what process_reminder_data makes of p's candidate
Processed(p) ==
    ProcessedWith(data_response[p].s, CurrentDatetime(p), clock,
                  Len(before[p]))

\* p's chat request appended to the store
ChatStored(p) ==
    ChatDone(p) /\ Len(reminders_storage) = Len(before[p]) + 1

LastStored == reminders_storage[Len(reminders_storage)]

\* minutes since the start of the calendar
Instant(date, h, m) == ToOrdinal(date) * 1440 + h * 60 + m

HourOfTime(time) ==
    IF time = PyNone THEN 9
    ELSE DecValue(Sub(time.s, 1, str_find(time.s, ":") - 1))

MinuteOfTime(time) ==
    IF time = PyNone THEN 0
    ELSE DecValue(Sub(time.s, str_find(time.s, ":") + 1, Len(time.s)))

\* the instant a stored reminder is due, 09:00 when it has no time
DueInstant(r) ==
    Instant(fromisoformat(r.date.s), HourOfTime(r.time), MinuteOfTime(r.time))

\* the 'now' of p's request: the client's fields, the wall clock for a
\* field the client left out
NowInstant(p) ==
    Instant(fromisoformat(Get(CurrentDatetime(p), "isoDate",
                              isoformat(clock.date))),
            Get(CurrentDatetime(p), "hour", clock.hour),
            Get(CurrentDatetime(p), "minute", clock.minute))

\* C1: after concurrent insertions have finished, the ids in the store are
\* exactly 1..N for the N reminders stored: none shared, none skipped
C1_IdsAreOneToN ==
    (\A p \in Threads : pc[p] \in {"idle", "done"})
        => {reminders_storage[i].id : i \in 1..Len(reminders_storage)}
               = 1..Len(reminders_storage)

\* C2: every reminder a chat request appended is due (at 09:00 when it has
\* no time) strictly after the request's 'now', and validate_datetime finds
\* no error in it: a candidate it rejected is not in the store
C2_StoredIsFuture ==
    \A p \in Threads :
        ChatStored(p) =>
            /\ DueInstant(LastStored) > NowInstant(p)
            /\ validate_datetime(LastStored.date.s, LastStored.time,
                                 CurrentDatetime(p), clock) = PyNone

\* a reminder without a time was stored: it is due at 09:00
C2_Witness ==
    \E p \in Threads : ChatStored(p) /\ LastStored.time = PyNone

\* C3: a candidate rejected by the extraction stage's own 'error' or by
\* validate_datetime is answered "Sorry, I couldn't set that reminder:
\* {error}" with trigger false, the error in 'error', no 'reminder_created',
\* and the store as the request found it
C3_RejectedReply ==
    \A p \in Threads :
        (ChatDone(p) /\ HasCandidate(p) /\ Processed(p).kind = "error") =>
            /\ Body(p)["message"] =
                   PyStr("Sorry, I couldn't set that reminder: "
                         \o Format(Processed(p).error))
            /\ Body(p)["trigger"] = PyBool(FALSE)
            /\ Body(p)["error"] = Processed(p).error
            /\ "reminder_created" \notin DOMAIN Body(p)
            /\ reminders_storage = before[p]

\* validate_datetime rejected a candidate that carried no error of its own
C3_Witness ==
    \E p \in Threads :
        /\ ChatDone(p) /\ HasCandidate(p) /\ Processed(p).kind = "error"
        /\ ~Truthy(Get(ReminderData(p).data, "error", PyNone))
        /\ Body(p)["error"] =
               PyStr("Cannot set reminder for past time. Current time is 09:00 and you're trying to set it for 09:00.")

\* C4: a generation call of the extraction stage is made only in a request
\* whose intent stage has returned a text decoding to trigger true; when it
\* decodes to trigger false no extraction call is made, the store is as the
\* request found it, and the reply has trigger false and no reminder_created
C4_ExtractOnlyOnTrigger ==
    \A p \in Threads :
        /\ calls[p].data_model > 0 => TriggerTrue(p)
        /\ pc[p] \in {"extract", "append"} => TriggerTrue(p)
        /\ (ChatDone(p) /\ chat_response[p] # PyNone /\ ChatData(p).ok
              /\ Get(ChatData(p).data, "trigger", PyNone) = PyBool(FALSE)) =>
                /\ calls[p].data_model = 0
                /\ reminders_storage = before[p]
                /\ Body(p)["trigger"] = PyBool(FALSE)
                /\ "reminder_created" \notin DOMAIN Body(p)

\* "Hello, how are you?" was answered after an intent call with trigger false
C4_Witness ==
    \E p \in Threads :
        /\ ChatDone(p) /\ chat_response[p] # PyNone /\ ChatData(p).ok
        /\ Get(ChatData(p).data, "trigger", PyNone) = PyBool(FALSE)
        /\ calls[p].chat_model > 0
        /\ response[p].status = 200

\* the request of the example: "Remind me to call John at 3 PM" at
\* 2024-06-10 09:00, extraction {title "Call John", date "today", time "15:00"}
C5_Example(p) ==
    /\ Message(p) = "Remind me to call John at 3 PM"
    /\ CurrentDatetime(p) = [isoDate |-> "2024-06-10", hour |-> 9, minute |-> 0]
    /\ Get(ReminderData(p).data, "title", PyNone) = PyStr("Call John")
    /\ Get(ReminderData(p).data, "date", PyNone) = PyStr("today")
    /\ Get(ReminderData(p).data, "time", PyNone) = PyStr("15:00")

\* C5: with trigger true, a candidate decoded without error and passed by
\* validate_datetime, the request appends exactly one reminder holding the
\* converted date and time, and the reply carries that reminder as
\* reminder_created with the sanitized intent reply as message; the example
\* stores date 2024-06-10, time 15:00
C5_StoredReply ==
    \A p \in Threads :
        (ChatDone(p) /\ TriggerTrue(p) /\ HasCandidate(p)
           /\ Processed(p).kind = "reminder") =>
            /\ response[p].status = 200
            /\ "reminder_created" \in DOMAIN Body(p)
            /\ reminders_storage = Append(before[p], Body(p)["reminder_created"])
            /\ LastStored.date =
                   PyStr(convert_date_to_iso(
                       Get(ReminderData(p).data, "date", PyStr("today")),
                       CurrentDatetime(p), clock).val)
            /\ LastStored.time =
                   convert_time_to_24h(
                       Get(ReminderData(p).data, "time", PyNone),
                       CurrentDatetime(p), clock).val
            /\ Body(p)["message"] =
                   CleanValue(Get(ChatData(p).data, "message",
                              PyStr("I understand your message.")))
            /\ Body(p)["message"].s \in
                   {"I'll set a reminder for you to call John at 3 PM.",
                    "Sure.Reminder set"}
            /\ C5_Example(p) =>
                   /\ LastStored.date = PyStr("2024-06-10")
                   /\ LastStored.time = PyStr("15:00")
                   /\ LastStored.title = PyStr("Call John")

\* the example request has stored its reminder
C5_Witness ==
    \E p \in Threads :
        /\ ChatStored(p) /\ TriggerTrue(p) /\ HasCandidate(p)
        /\ C5_Example(p)
        /\ "reminder_created" \in DOMAIN Body(p)

\* C6: when the extraction stage's text does not decode, a candidate is
\* still obtained from the raw message and normalized and validated: the
\* request ends with a reminder stored or with a rejection, never with no
\* reminder and no error
C6_UndecodableStoredOrRejected ==
    \A p \in Threads :
        (ChatDone(p) /\ TriggerTrue(p) /\ data_response[p] # PyNone
           /\ ~ReminderData(p).ok) =>
            \/ /\ "reminder_created" \in DOMAIN Body(p)
               /\ reminders_storage = Append(before[p], Body(p)["reminder_created"])
            \/ /\ "error" \in DOMAIN Body(p)
               /\ reminders_storage = before[p]

\* the keyword-based guess: the lower-cased message holds one of the words
KeywordIn(message) ==
    \E w \in {"remind", "reminder", "remember", "schedule", "appointment",
              "meeting"} :
        \E i \in 1..Len(message) :
            str_lower(Sub(message, i, i + Len(w) - 1)) = w

\* C7: when the intent stage's text does not decode, the request is
\* answered with the generic acknowledgment, trigger equal to the keyword
\* guess over the message and, in a new conversation, a title of the
\* message's first words; no extraction call is made and the store is as the
\* request found it
C7_IntentFallback ==
    \A p \in Threads :
        (ChatDone(p) /\ chat_response[p] # PyNone /\ ~ChatData(p).ok) =>
            /\ response[p].status = 200
            /\ Body(p)["message"] =
                   PyStr(strip_html_tags("I understand your message: '"
                             \o Message(p) \o "'. How can I help you?"))
            /\ Body(p)["trigger"] = PyBool(KeywordIn(Message(p)))
            /\ Body(p)["session_id"] = PyStr(SessionId(p))
            /\ IsNewConversation(p) =>
                   /\ "title" \in DOMAIN Body(p)
                   /\ Message(p) = "Remind me to call John at 3 PM" =>
                          Body(p)["title"] = PyStr("Remind me to call")
            /\ ~IsNewConversation(p) => "title" \notin DOMAIN Body(p)
            /\ "reminder_created" \notin DOMAIN Body(p)
            /\ calls[p].data_model = 0
            /\ reminders_storage = before[p]

\* an undecodable intent text was answered with a guessed trigger of true
C7_Witness ==
    \E p \in Threads :
        /\ ChatDone(p) /\ chat_response[p] # PyNone /\ ~ChatData(p).ok
        /\ Body(p)["trigger"] = PyBool(TRUE)
        /\ IsNewConversation(p)

\* every attempt of the extraction call raised, or processing raised
ExtractionRaised(p) ==
    /\ calls[p].data_model > 0
    /\ \/ data_response[p] = PyNone
       \/ HasCandidate(p) /\ Processed(p).kind = "raise"

\* C8: when the extraction call raises on its last attempt, or processing
\* its result raises, the request still returns, with no error status, the
\* reply built from the intent stage (its message and session_id, no
\* reminder_created), and the store is as the request found it
C8_ExtractionContained ==
    \A p \in Threads :
        (ChatDone(p) /\ ExtractionRaised(p)) =>
            /\ response[p].status = 200
            /\ Body(p)["message"] =
                   CleanValue(Get(ChatData(p).data, "message",
                              PyStr("I understand your message.")))
            /\ Body(p)["trigger"] = Get(ChatData(p).data, "trigger", PyNone)
            /\ Body(p)["session_id"] = PyStr(SessionId(p))
            /\ "reminder_created" \notin DOMAIN Body(p)
            /\ "error" \notin DOMAIN Body(p)
            /\ reminders_storage = before[p]

\* the extraction call raised max_retries times and the request was answered
C8_Witness ==
    \E p \in Threads :
        /\ ChatDone(p)
        /\ calls[p].data_model = max_retries
        /\ data_response[p] = PyNone

\* C9: when every attempt of the intent call fails, the request is still
\* answered with a well-formed reply (message, trigger, session_id), without
\* a fault status and without the text of the generation error
C9_IntentFailureDegrades ==
    \A p \in Threads :
        (ChatDone(p) /\ calls[p].chat_model = max_retries
           /\ chat_response[p] = PyNone) =>
            /\ response[p].status = 200
            /\ {"message", "trigger", "session_id"} \subseteq DOMAIN Body(p)
            /\ "error" \notin DOMAIN Body(p)

\* thread p receives a chat request in this step
ChatReceived(p) ==
    /\ pc[p] \in {"idle", "done"}
    /\ served' = served + 1
    /\ request'[p].route = "chat"
    /\ calls'[p] = NoCalls
    /\ pc'[p] # "manual_append"

\* C10: a chat request without a message, or with an empty one, is answered
\* 400 'Message is required' in the step that receives it: no generation
\* call is made, no session is created and the store is unchanged
C10_EmptyMessage ==
    [][\A p \in Threads :
          (ChatReceived(p) /\ Get(request'[p].body, "message", "") = "") =>
              /\ response'[p] =
                     Reply(400, [error |-> PyStr("Message is required")])
              /\ pc'[p] = "done"
              /\ calls'[p] = NoCalls
              /\ chat_sessions' = chat_sessions
              /\ reminders_storage' = reminders_storage]_vars

\* a chat request without a 'message' key was answered 400
C10_Witness ==
    \E p \in Threads :
        /\ ChatDone(p)
        /\ "message" \notin DOMAIN request[p].body
        /\ response[p].status = 400
        /\ calls[p] = NoCalls

\* C11: a stage call makes at most max_retries generation attempts; while it
\* is still attempting, every attempt so far has raised and none has
\* returned a text (decodable or not); when the last attempt raises the
\* failure leaves safe_api_call: the intent stage's reaches the handler's
\* except clause, the extraction stage's the inner one
C11_BoundedRetries ==
    \A p \in Threads :
        /\ calls[p].chat_model <= max_retries
        /\ calls[p].data_model <= max_retries
        /\ pc[p] = "intent" =>
               /\ chat_response[p] = PyNone
               /\ calls[p].chat_model = attempt[p]
               /\ attempt[p] < max_retries
        /\ pc[p] = "extract" =>
               /\ data_response[p] = PyNone
               /\ calls[p].data_model = attempt[p]
               /\ attempt[p] < max_retries
        /\ (ChatDone(p) /\ calls[p].chat_model > 0 /\ chat_response[p] = PyNone) =>
               /\ calls[p].chat_model = max_retries
               /\ response[p].status = 500
        /\ (ChatDone(p) /\ calls[p].data_model > 0 /\ data_response[p] = PyNone) =>
               /\ calls[p].data_model = max_retries
               /\ "reminder_created" \notin DOMAIN Body(p)

\* the first attempt raised, the second returned a text that does not
\* decode, and the request was answered without a third attempt
C11_Witness ==
    \E p \in Threads :
        /\ ChatDone(p)
        /\ calls[p].chat_model = max_retries
        /\ chat_response[p] # PyNone
        /\ ~ChatData(p).ok

\* thread p creates the session of its chat request in this step (line 530)
CreatesSession(p) == pc[p] = "start_chat" /\ pc'[p] = "intent"

\* C12: session lookup-or-create is atomic under any interleaving: the
\* creation that follows a lookup never replaces a session that is already
\* stored under the id (so requests naming the same unknown id create one
\* session object), and it changes no session stored under another id
C12_AtomicLookupOrCreate ==
    [][\A p \in Threads :
          CreatesSession(p) =>
              /\ SessionId(p) \notin DOMAIN chat_sessions
              /\ \A id \in DOMAIN chat_sessions \ {SessionId(p)} :
                     /\ id \in DOMAIN chat_sessions'
                     /\ chat_sessions'[id] = chat_sessions[id]]_vars

\* the k-th record of the store has id k
IdsInOrder(store) == \A k \in 1..Len(store) : store[k].id = k

\* C13: with requests served one after another, every step leaves the store
\* as it was or appends one record to it (none removed, none modified), and
\* the k-th record has id k, whether a chat request or a manual creation
\* stored it
C13_AppendOnlyIds ==
    [][/\ Len(reminders_storage') \in
              {Len(reminders_storage), Len(reminders_storage) + 1}
       /\ SubSeq(reminders_storage', 1, Len(reminders_storage))
              = reminders_storage
       /\ IdsInOrder(reminders_storage')]_vars

\* a chat request stored record 1 and a manual creation record 2
C13_Witness ==
    /\ Len(reminders_storage) = 2
    /\ reminders_storage[1].title = PyStr("Call John")
    /\ reminders_storage[2].title = PyStr("Buy milk")
    /\ reminders_storage[2].id = 2
    /\ \A p \in Threads : pc[p] \in {"idle", "done"}

\* C14: every reminder in the store, stored by a chat request or by a manual
\* creation, has a date that is a valid ISO calendar date YYYY-MM-DD
C14_StoredDatesAreIso ==
    \A k \in 1..Len(reminders_storage) :
        /\ reminders_storage[k].date.t = "str"
        /\ IsIsoDate(reminders_storage[k].date.s)

\* thread p is serving a chat request that carries a message
InPipeline(p) ==
    request[p].route = "chat" /\ Message(p) # "" /\ pc[p] \notin {"idle", "done"}

\* RESPONDED: the composed reply has been returned
Responded(p) ==
    /\ pc[p] = "done"
    /\ response[p].status = 200
    /\ {"message", "trigger", "session_id"} \subseteq DOMAIN Body(p)

\* the steps of thread p's handler along the pipeline's edges: RECEIVED is
\* "session", "start_chat" and "intent", EXTRACT is "extract", STORED is
\* "append"; CLASSIFIED, SKIP, REJECTED and EXTRACT_FAILED are passed within
\* the step that leaves "intent" or "extract"
PipelineEdge(p) ==
    \/ pc'[p] = pc[p]
    \/ pc[p] \in {"idle", "done"}
    \/ pc[p] = "manual_append"
    \/ pc[p] = "session" /\ pc'[p] \in {"start_chat", "intent"}
    \/ pc[p] = "start_chat" /\ pc'[p] = "intent"
    \/ pc[p] = "intent" /\ pc'[p] = "extract" /\ TriggerTrue(p)'
    \/ pc[p] = "intent" /\ Responded(p)'
    \/ pc[p] = "extract" /\ pc'[p] = "append"
    \/ pc[p] = "extract" /\ Responded(p)'
    \/ pc[p] = "append" /\ Responded(p)' /\ "reminder_created" \in DOMAIN Body(p)'

\* C15: a chat request that carries a message moves only along the edges
\* RECEIVED -> CLASSIFIED -> (SKIP | EXTRACT) -> (STORED | REJECTED |
\* EXTRACT_FAILED) -> RESPONDED, or straight to RESPONDED when the intent
\* text does not decode, and it eventually reaches RESPONDED whatever the
\* generation calls return or raise
C15_ReachesResponded ==
    /\ [][\A p \in Threads : PipelineEdge(p)]_vars
    /\ \A p \in Threads : InPipeline(p) ~> Responded(p)

\* the request is answered by some reply, composed or not
C15_Terminates ==
    \A p \in Threads : InPipeline(p) ~> (pc[p] = "done")

\* what a run of process_reminder_data decides: accepted, rejected or
\* raised, the error, and the resolved date and time
Decision(processed) ==
    [kind |-> processed.kind, error |-> processed.error,
     date |-> processed.reminder.date, time |-> processed.reminder.time]

\* the decision on p's candidate had the wall clock read wall
DecisionAt(p, wall) ==
    Decision(ProcessedWith(data_response[p].s, CurrentDatetime(p), wall,
                           Len(before[p])))

\* C16: the resolved date, the resolved time and the accept/reject decision
\* depend on the candidate and the request's current_datetime only: the
\* same request, with the same generation outputs, run at any other
\* wall-clock time gives the same ones, also when current_datetime leaves
\* out isoDate, hour or minute
C16_WallClockIndependent ==
    \A p \in Threads :
        (ChatDone(p) /\ HasCandidate(p)) =>
            \A wall \in WallClocks : DecisionAt(p, wall) = DecisionAt(p, clock)

\* ---- C17 ----
\* the reminder of a direct validate_datetime call falls strictly after now
DueAfterNow == args.ahead > 0 \/ (args.ahead = 0 /\ args.at > MinuteOf(args.now))

\* result is an error text that starts with `head` and names both a and b
ErrorNaming(head, a, b) ==
    /\ result.t = "str"
    /\ str_startswith(result.s, head)
    /\ str_contains(result.s, a)
    /\ str_contains(result.s, b)

\* C17: for an ISO date d, a well-formed time t and a current date and time
\* now, validate_datetime returns no error exactly when (d, t) falls strictly
\* after now; on now's date with t at or before now's time it returns the
\* "past time" error naming the current and the requested time; on a date
\* before now's date it returns the "past date" error naming both dates,
\* whatever t is.
C17_ValidateFuture ==
    result # NotCalled =>
        /\ (result = PyNone) <=> DueAfterNow
        /\ (args.ahead = 0 /\ args.at <= MinuteOf(args.now)) =>
               ErrorNaming("Cannot set reminder for past time.",
                           FormatHM(args.now.hour, args.now.minute),
                           args.time_str.s)
        /\ args.ahead < 0 =>
               ErrorNaming("Cannot set reminder for past date.",
                           isoformat(args.now.date), args.date_str)

\* a reminder one minute before now, on now's date, was refused
C17_Witness ==
    /\ result # NotCalled
    /\ args.ahead = 0
    /\ args.at + 1 = MinuteOf(args.now)
    /\ result.t = "str"

\* ---- C18 ----
\* s holds a '<' with a '>' somewhere after it
HasBracketSpan(s) ==
    \E i \in 1..Len(s) : \E j \in (i + 1)..Len(s) :
        Char(s, i) = "<" /\ Char(s, j) = ">"

\* C18: for every text x, strip_html_tags applied to strip_html_tags(x)
\* gives strip_html_tags(x) again, and strip_html_tags(x) holds no '<' that is
\* followed later by a '>', nested and adjacent brackets and whitespace
\* between or inside brackets included.
C18_IdempotentNoSpan ==
    result # NotCalled =>
        /\ strip_html_tags(result.s) = result.s
        /\ ~HasBracketSpan(result.s)

\* ---- C19 ----
\* days from date a to date b
DaysBetween(a, b) == ToOrdinal(b) - ToOrdinal(a)

\* the day of the week of date d, 1 for Monday: 1 January 2024 was a Monday
DayOfWeek(d) == (DaysBetween(MkDate(2024, 1, 1), d) % 7) + 1

\* C19: for every current date and every weekday name,
\* convert_date_to_iso(name, now) returns a date that falls on that weekday
\* and lies 1 to 7 days after the current date: never the current date, and
\* seven days on when the current date is that weekday.
C19_NextWeekday ==
    result # NotCalled =>
        /\ result.t = "str"
        /\ IsIsoDate(result.s)
        /\ DayOfWeek(fromisoformat(result.s)) = args.day
        /\ DaysBetween(args.today, fromisoformat(result.s)) \in 1..7
        /\ DayOfWeek(args.today) = args.day =>
               DaysBetween(args.today, fromisoformat(result.s)) = 7

\* the current date's own weekday was asked for and the date a week on came
C19_Witness ==
    /\ result # NotCalled
    /\ DayOfWeek(args.today) = args.day
    /\ DaysBetween(args.today, fromisoformat(result.s)) = 7

\* ---- C20 ----
\* the hour of the day of the 12-hour time in args
ArgsHour24 == (args.hour % 12) + (IF args.pm THEN 12 ELSE 0)

ArgsMinute == IF args.minute < 0 THEN 0 ELSE args.minute

\* C20: for H in 1..12, MM in 00..59 and a suffix am or pm written with or
\* without a space before it, convert_time_to_24h of "H am|pm" or
\* "H:MM am|pm" returns the 24-hour time with the minutes kept ("12am" gives
\* "00:00", "12pm" "12:00", "9 AM" "09:00", "9:30pm" "21:30").
C20_TwelveHour ==
    result # NotCalled => result = PyStr(FormatHM(ArgsHour24, ArgsMinute))

\* ---- C21 ----
\* C21: in every reachable state every reminder in the store, whether the
\* chat pipeline or the manual route created it, has a title that is a
\* non-empty text of at most 100 characters.
C21_StoredTitles ==
    \A k \in 1..Len(reminders_storage) :
        /\ reminders_storage[k].title.t = "str"
        /\ Len(reminders_storage[k].title.s) \in 1..100

\* ---- C22 ----
\* thread p has answered a listing request
ListDone(p) == pc[p] = "done" /\ request[p].route = "list"

\* reminder r is not completed and its date is an ISO date lo to hi days
\* after the server's date
OpenWithin(r, lo, hi) ==
    /\ ~r.completed
    /\ r.date.t = "str"
    /\ IsIsoDate(r.date.s)
    /\ (ToOrdinal(fromisoformat(r.date.s)) - ToOrdinal(clock.date)) \in lo..hi

\* the records of list are records of all, in all's order
Contained(list, all) ==
    list = SelectSeq(all, LAMBDA r : \E k \in 1..Len(list) : list[k] = r)

Touched ==
    {id \in DOMAIN chat_sessions' :
        id \notin DOMAIN chat_sessions \/ chat_sessions'[id] # chat_sessions[id]}

\* the session id the request thread p holds after this step names
NamedId(p) ==
    IF "session_id" \in DOMAIN request'[p].body
    THEN request'[p].body.session_id ELSE "default"

\* this step is one of thread p's handler
Acted(p) ==
    <<pc[p], request[p], attempt[p], response[p], calls[p]>>'
        # <<pc[p], request[p], attempt[p], response[p], calls[p]>>

\* what a step of a request on route `route` may do to the session store
SessionFrame(p, route) ==
    IF route = "chat"
    THEN /\ Touched \subseteq {NamedId(p)} \ DOMAIN chat_sessions
         /\ \A id \in Touched : chat_sessions'[id].history = <<>>
    ELSE IF route = "new_chat" /\ served' # served
    THEN /\ Touched \subseteq {NamedId(p)}
         /\ NamedId(p) \in DOMAIN chat_sessions'
         /\ chat_sessions'[NamedId(p)].history = <<>>
    ELSE Touched = {}

\* C23: a chat request on a session id the store holds leaves the store as it
\* is; one on an unknown id adds that id and changes no other entry; new_chat
\* replaces the entry of the id it names by a fresh empty session and leaves
\* every other entry as it is; no operation removes an id.
C23_SessionFrame ==
    /\ [][/\ DOMAIN chat_sessions \subseteq DOMAIN chat_sessions'
          /\ \A p \in Threads :
                 Acted(p) => SessionFrame(p, request'[p].route)
          /\ (\E p \in Threads : Acted(p)) \/ Touched = {}]_vars
    /\ [](\A p \in Threads :
              (ChatDone(p) /\ response[p].status = 200)
                  => SessionId(p) \in DOMAIN chat_sessions)

\* a second id entered the store and the first one's session is still there
C23_Witness ==
    /\ DOMAIN chat_sessions = {"s1", "default"}
    /\ \A p \in Threads : pc[p] \in {"idle", "done"}

\* ---- C24 ----
\* the 'now' of p's request is a date and a time of day
NowWellFormed(p) ==
    /\ IsIsoDate(Get(CurrentDatetime(p), "isoDate", isoformat(clock.date)))
    /\ Get(CurrentDatetime(p), "hour", clock.hour) \in 0..23
    /\ Get(CurrentDatetime(p), "minute", clock.minute) \in 0..59

\* p's candidate names no time and no error, and its date is today or
\* yesterday
TimelessCandidate(p) ==
    /\ ChatDone(p)
    /\ HasCandidate(p)
    /\ NowWellFormed(p)
    /\ ~Truthy(Get(ReminderData(p).data, "error", PyNone))
    /\ Get(ReminderData(p).data, "time", PyNone) = PyNone
    /\ Get(ReminderData(p).data, "date", PyNone)
           \in {PyStr("today"), PyStr("yesterday")}

\* days from now's date to the candidate's date
CandidateDayOffset(p) ==
    IF Get(ReminderData(p).data, "date", PyNone) = PyStr("today") THEN 0
    ELSE -1

\* C24: a candidate without a time is validated as due at 09:00 on its
\* resolved date (dated today it is accepted exactly when now's time of day
\* is before 09:00), and when it is accepted the stored reminder has no
\* time, not 09:00.
C24_TimelessAtNine ==
    \A p \in Threads :
        TimelessCandidate(p) =>
            /\ ChatStored(p)
                   <=> CandidateDayOffset(p) * 1440 + 9 * 60
                           > NowInstant(p) % 1440
            /\ ChatStored(p) => LastStored.time = PyNone

\* at 08:59 a candidate for today without a time was stored without a time
C24_Witness ==
    \E p \in Threads :
        /\ TimelessCandidate(p)
        /\ ChatStored(p)
        /\ NowInstant(p) % 1440 = 8 * 60 + 59
        /\ LastStored.time = PyNone

\* ---- C25 ----
\* the month and day of args exist as a date of year y
ArgsDayExists(y) == ValidYMD(y, args.month, args.day)

ArgsDate(y) == MkDate(y, args.month, args.day)

\* the month and day of args come before the current date in its year
ArgsDayPassed ==
    ToOrdinal(ArgsDate(args.today.y)) < ToOrdinal(args.today)

\* C25 as stated: for a month name (full or 3-letter) and a day number in
\* either order, convert_date_to_iso returns that month and day in the
\* current year when it is on or after the current date, in the year after
\* when it is before the current date, and the current date when the month
\* has no such day; the result is never before the current date.
C25_MonthDay ==
    result # NotCalled =>
        result = PyStr(isoformat(
                     IF ~ArgsDayExists(args.today.y) THEN args.today
                     ELSE IF ArgsDayPassed THEN ArgsDate(args.today.y + 1)
                     ELSE ArgsDate(args.today.y)))

\* C25 amended: as stated, but a month and day that have passed and do not
\* exist in the year after (29 February after a leap day) give the current
\* date; the result is a date, never before the current date.
C25_MonthDayAmended ==
    result # NotCalled =>
        /\ result = PyStr(isoformat(
                        IF ~ArgsDayExists(args.today.y) THEN args.today
                        ELSE IF ~ArgsDayPassed THEN ArgsDate(args.today.y)
                        ELSE IF ArgsDayExists(args.today.y + 1)
                        THEN ArgsDate(args.today.y + 1)
                        ELSE args.today))
        /\ IsIsoDate(result.s)
        /\ ToOrdinal(fromisoformat(result.s)) >= ToOrdinal(args.today)

\* a month and day that had passed came back in the year after
C25_Witness ==
    /\ result # NotCalled
    /\ ArgsDayExists(args.today.y)
    /\ ArgsDayPassed
    /\ result = PyStr(isoformat(ArgsDate(args.today.y + 1)))

\* ---- C26 ----
\* the minute of the day N hours, or N minutes, after args.now
RelativeMinute ==
    IF args.unit = "hours"
    THEN ((args.now.hour + args.n) % 24) * 60 + args.now.minute
    ELSE (MinuteOf(args.now) + args.n) % (24 * 60)

\* C26: for every now and every N >= 0, "in N hours" and "next N hours"
\* give ((now.hour + N) mod 24):now.minute, "in N minutes" and "next N
\* minutes" the time of day N minutes after now, the minutes carried into
\* the hour and the hour taken modulo 24; the hour of the result is in
\* 0..23 and its minute in 0..59.
C26_RelativeTime ==
    result # NotCalled =>
        /\ result = PyStr(FormatHM(RelativeMinute \div 60, RelativeMinute % 60))
        /\ HourOfTime(result) \in 0..23
        /\ MinuteOfTime(result) \in 0..59

\* 61 minutes after 23:59 came out as 01:00
C26_Witness ==
    /\ result = PyStr("01:00")
    /\ args.unit = "minutes"
    /\ args.n = 61
    /\ args.now.hour = 23

\* ---- C27 ----
\* s is HH:MM with the hour in 00..23 and the minute in 00..59
Canonical(s) ==
    /\ Len(s) = 5
    /\ Char(s, 3) = ":"
    /\ \A i \in {1, 2, 4, 5} : IsDigit(Char(s, i))
    /\ DecValue(Sub(s, 1, 2)) \in 0..23
    /\ DecValue(Sub(s, 4, 5)) \in 0..59

\* C27: for every expression and every now convert_time_to_24h returns
\* either None or a canonical HH:MM with the hour in 00..23 and the minute
\* in 00..59, and None for an expression that is not a valid time.
C27_CanonicalOrAbsent ==
    result # NotCalled =>
        /\ result = PyNone \/ (result.t = "str" /\ Canonical(result.s))
        /\ ~args.valid => result = PyNone

\* ---- C28 ----
\* C28: a text made of optional code-fence markers and leading or trailing
\* prose, prose with braces in it included, around one valid JSON object
\* decodes to that object; a text that holds no decodable object gives None.
C28_DecodesTheObject ==
    result # NotCalled =>
        IF args.decodable
        THEN result.t = "dict" /\ result.data = args.object
        ELSE result.t = "none"

\* ---- C29 ----
\* the reply of p's chat request carries the key
Carries(p, key) == key \in DOMAIN Body(p)

\* the store is the one p's request found with the records in more appended
GrewBy(p, more) ==
    /\ Len(reminders_storage) = Len(before[p]) + Len(more)
    /\ reminders_storage = before[p] \o more

\* C29: the reply of a chat request that ran without overlap never carries
\* both reminder_created and error; it carries reminder_created exactly when
\* the request grew the store by one record, the record returned; otherwise
\* the store is as the request found it, and at no point of the request has
\* the store grown by more than one record.
C29_CreatedIffStored ==
    \A p \in Threads :
        /\ request[p].route = "chat" /\ pc[p] # "idle" =>
               Len(reminders_storage) - Len(before[p]) \in {0, 1}
        /\ ChatDone(p) =>
               /\ ~(Carries(p, "reminder_created") /\ Carries(p, "error"))
               /\ Carries(p, "reminder_created")
                      <=> Len(reminders_storage) = Len(before[p]) + 1
               /\ IF Carries(p, "reminder_created")
                  THEN GrewBy(p, <<Body(p).reminder_created>>)
                  ELSE GrewBy(p, <<>>)

\* a second request stored a reminder and returned it
C29_Witness ==
    \E p \in Threads :
        /\ ChatDone(p)
        /\ Carries(p, "reminder_created")
        /\ Len(before[p]) = 1
        /\ Body(p).reminder_created = reminders_storage[2]

\* ---- C30 ----
\* C30: a successful chat reply has trigger true only if the request stored
\* a reminder: where none is created (intent decode failure, extraction
\* decode failure, extraction exception, rejection) the trigger returned is
\* false.
C30_TriggerOnlyIfStored ==
    \A p \in Threads :
        (ChatDone(p) /\ response[p].status = 200
            /\ Get(Body(p), "trigger", PyNone) = PyBool(TRUE))
            => /\ ChatStored(p)
               /\ Carries(p, "reminder_created")

============================================================================
